---- MODULE Spec2Model ----
(***************************************************************************)
(* The install-transaction engine of hasp: the pipeline                    *)
(*   cargo_install -> make_resolver -> make_fetcher -> fetch               *)
(*                 -> PackageInstaller::new -> PackageInstaller::install   *)
(* run by several pipelines at once, over the shared catalog               *)
(* (packages.directories, packages.installed, packages.installed_files),   *)
(* the install paths and their lock files, and the per-pipeline staging    *)
(* directories.                                                            *)
(***************************************************************************)
EXTENDS Integers, Sequences, FiniteSets, TLC

\* Number of pipelines (install futures, in one process or in several).
NPipes == 2

Pipes == 1..NPipes

\* PackageMatcherImpl::namespace of the cargo backend.
namespace == "cargo"

\* Crate names requested; the resolver maps a name to one concrete version.
Names == {"ripgrep"}

resolved_version(name) == "sem:13.0.0"

\* A request: the crate name and the CargoDirectory metadata.
Reqs == [name : Names, default_features : BOOLEAN]

\* File names a successful build reports (the binaries, plus Cargo.lock).
built_files == {"rg", "Cargo.lock"}

VARIABLES
    proc,            \* proc[p]: the OS process that drives pipeline p
    req,             \* req[p]: the request of pipeline p
    force,           \* force[p]: the argument of PackageInstaller::install
    pc,              \* pc[p]: the position of pipeline p
    status,          \* status[p]: what cargo_install returned (or "none")
    ret,             \* ret[p]: result of install_and_finish, pending while unwinding
    hash,            \* hash[p]: the hash of the install path of PackageInstaller p
    row,             \* row[p]: directory_id of PackageInstaller::row (0: none)
    lock,            \* lock[h]: pipeline holding the exclusive flock on <h>.lock (0: none)
    directories,     \* packages.directories, committed; directory_id is the index
    installed,       \* packages.installed, committed; install_id is the index
    installed_files, \* packages.installed_files, committed
    txn,             \* txn[p]: the open transaction of p and its uncommitted writes
    fs,              \* fs[h]: the tree at install path installs/cargo/<name>/<h>
    temp_dir,        \* temp_dir[p]: the staging parent under cache/
    guard,           \* guard[p]: the InstallGuard of p
    pre,             \* pre[p]: catalog and tree of p's directory when its guard was created
    journal,         \* journal[p]: the events p passed to EventLogger::log, in order
    migration_status, \* the rows (name, state) of the table migration_status
    init_result,     \* what ConnectionCreator::initialize returned (kind "none": not run)
    initialized,     \* initialized[c]: the OnceCell of creator c is set
    init_trace,      \* what the last initialize call ran and logged, in order
    SQL_DIR_migrations, \* the sql/migrations embedded in the build of the running process
    loggers,         \* the number of live EventLogger values (the original and its clones)
    channel,         \* the (event name, data) pairs sent and not yet received
    writer,          \* the hasp-event-logger thread: "running", "exited" or "panicked"
    events_journal,  \* the rows of the journal table of the events database
    owner,           \* the thread that holds the EventLogger: "running", "joining", "released" or "panicked"
    join_handle,     \* the references to the JoinHandle of the writer thread (Arc strong count)
    codec_in,        \* the value given to a serialisation round trip or to a parser
    codec_out        \* what the round trip or the parser returned (op "none": not run)

\* The catalog schema state, which the install pipelines leave alone.
logvars == << loggers, channel, writer, events_journal, owner, join_handle >>

schemavars == << migration_status, init_result, initialized, init_trace, SQL_DIR_migrations >>

codecvars == << codec_in, codec_out >>

dbvars == << migration_status, init_result, initialized, init_trace, SQL_DIR_migrations,
            logvars, codecvars >>

vars == << proc, req, force, pc, status, ret, hash, row, lock, directories, installed,
           installed_files, txn, fs, temp_dir, guard, pre, journal, dbvars >>

----------------------------------------------------------------------------
\* Values

Absent == [kind |-> "absent", by |-> 0]
Empty == [kind |-> "empty", by |-> 0]
Built(p) == [kind |-> "built", by |-> p]

NoTempDir == [exists |-> FALSE, new |-> Absent, old |-> Absent]
NoGuard == [exists |-> FALSE, force |-> FALSE, finished |-> FALSE]
NoTxn == [open |-> FALSE, install |-> FALSE, set_installed |-> FALSE, files |-> {}]
NoPre == [installed |-> FALSE, installs |-> {}, files |-> {}, tree |-> Absent]

\* The static reason as the specification words it.
TRANSACTION_DROPPED_signal == "transaction dropped, likely due to a panic or signal"

\* The static reason of Drop for InstallGuard.
TRANSACTION_DROPPED == "transaction dropped, likely due to a panic or Ctrl-C"

\* new_directory_hash: namespace, name and version are fed to the hasher with
\* hash_bytes, then the installer adds default_features; the digest stands for
\* the fields fed (XxHash64 is taken to be collision-free on them).
new_directory_hash(ns, name, version, default_features) ==
    << ns, name, version, default_features >>

Hashes == { new_directory_hash(namespace, r.name, resolved_version(r.name), r.default_features) :
            r \in Reqs }

\* What cargo_install returns: an InstallStatus, or an error report (named by
\* the call that raised it); a task dropped before it returned has none.
Success == "Success"
Failure == "Failure"
AlreadyInstalled == "AlreadyInstalled"
ErrFetch == "Err(failed to fetch package)"
ErrInsert == "Err(failed to insert row)"
ErrAbort == "Err(install aborted)"
Panicked == "panicked"
Cancelled == "cancelled"
Crashed == "crashed"

ErrorReturns == {ErrFetch, ErrInsert, ErrAbort}

\* Positions from the end of the download to the return of cargo_install.
SyncPcs == {"new_lock", "new_insert", "new_err", "inst_lock", "inst_check", "build",
            "finish", "fin_new", "fin_write", "fin_commit", "unwind"}

\* The build yields to the executor while the build tool runs.
CargoInstaller_install_yields == TRUE

\* CargoInstaller::install runs the build tool to completion inside one poll: its
\* body has no await, so the task is never suspended during the build.
CargoInstaller_install_suspends == FALSE

\* The task of pipeline q is inside a poll (it has been polled and has not
\* reached an await that suspends).
in_poll(q) ==
    /\ pc[q] \in SyncPcs
    /\ ~(pc[q] = "build" /\ CargoInstaller_install_suspends)

\* Command::exec drives the install futures of one process with try_join_all on
\* one task: while another future of p's process is inside a poll, p is not polled.
cpu_busy(p) == \E q \in Pipes : q # p /\ proc[q] = proc[p] /\ in_poll(q)

\* try_join_all returns at the first Err (and a panic unwinds the task): the
\* futures of the process that have not completed are dropped.
proc_dead(pr) ==
    \E q \in Pipes : proc[q] = pr /\ pc[q] = "done" /\ status[q] \in ErrorReturns \cup {Panicked}

----------------------------------------------------------------------------
\* Catalog queries (committed state; the readers use their own connections)

\* DirectoryRow::all_matches_for_version
all_matches_for_version(name, version) ==
    { d \in DOMAIN directories :
        /\ directories[d].namespace = namespace
        /\ directories[d].name = name
        /\ directories[d].version = version }

\* DirectoryVersionReq::matches for the requirement of request r.
req_matches(r, version) == version = resolved_version(r.name)

\* InstalledRow::all_matches_for: directories INNER JOIN installed USING (directory_id).
InstalledRow_all_matches_for(name) ==
    { i \in DOMAIN installed :
        /\ directories[installed[i].directory_id].namespace = namespace
        /\ directories[installed[i].directory_id].name = name }

\* PackageMatcher::best_installed_match: the rows the requirement matches; the
\* cargo matcher takes the first, so there is a match iff the set is not empty.
best_installed_match(r) ==
    { i \in InstalledRow_all_matches_for(r.name) :
        req_matches(r, directories[installed[i].directory_id].version) }

\* The installed flag is taken to be false whatever the row says.
get_installed_ignored(d) == FALSE

\* DirectoryRow::get_installed
get_installed(d) == directories[d].installed

\* The table has no uniqueness constraint.
directories_unconstrained(ns, name, h) == TRUE

\* The UNIQUE (namespace, name, hash) constraint of packages.directories.
directories_unique(ns, name, h) ==
    \A d \in DOMAIN directories :
        ~(directories[d].namespace = ns /\ directories[d].name = name /\ directories[d].hash = h)

\* The install path is computed but no directory is created.
install_path_not_created(tree) == tree

\* HaspHome::make_install_path: create_dir_all of the install path.
make_install_path(tree) == IF tree = Absent THEN Empty ELSE tree

\* The rows of the catalog that belong to directory d, and the tree at its path.
DirState(d) ==
    [ installed |-> directories[d].installed,
      installs  |-> { i \in DOMAIN installed : installed[i].directory_id = d },
      files     |-> { f \in installed_files : installed[f.install_id].directory_id = d },
      tree      |-> fs[directories[d].hash] ]

----------------------------------------------------------------------------
\* Events

InstallStarted(p, f) == [event_name |-> "install_started", by |-> p, force |-> f,
                         reason |-> "none", metadata |-> "none"]
InstallSuccess(p, f) == [event_name |-> "install_success", by |-> p, force |-> f,
                         reason |-> "none", metadata |-> "none"]
InstallFailed(p, f, reason, metadata) ==
    [event_name |-> "install_failed", by |-> p, force |-> f,
     reason |-> reason, metadata |-> metadata]

\* rollback without the check of finished.
rollback_unchecked(p, g, j, reason, metadata) ==
    [guard |-> [g EXCEPT !.finished = TRUE],
     journal |-> Append(j, InstallFailed(p, g.force, reason, metadata))]

\* InstallGuard::rollback on guard g of pipeline p with journal j: the new guard
\* and journal.
rollback(p, g, j, reason, metadata) ==
    IF g.finished
    THEN [guard |-> g, journal |-> j]
    ELSE [guard |-> [g EXCEPT !.finished = TRUE],
          journal |-> Append(j, InstallFailed(p, g.force, reason, metadata))]

\* Every InstallError is logged as a failure of the build process.
always_ProcessFailed(err) == "ProcessFailed"

\* InstallError::log_and_rollback: the FailureReason for an InstallError.
log_and_rollback_reason(err) ==
    IF err = "Fail" THEN "ProcessFailed" ELSE "Aborted"

----------------------------------------------------------------------------
\* Locks

\* The lock is taken without waiting for its holder.
lock_exclusive_no_wait(h) == TRUE

\* FileExt::lock_exclusive on <h>.lock returns once no other open file holds the lock.
lock_exclusive_ready(h) == lock[h] = 0

\* Dropping the ExclusiveRoot closes its file, which releases the flock.
unlock(p, h) == [lock EXCEPT ![h] = IF @ = p THEN 0 ELSE @]

\* The staging parent is kept on disk when its owner is dropped.
keep_temp_dir(p) == temp_dir

\* Dropping the Utf8TempDir removes the staging parent with its contents.
drop_temp_dir(p) == [temp_dir EXCEPT ![p] = NoTempDir]

----------------------------------------------------------------------------
\* Migrations

\* Migration names are ordered as strings; a name is modelled by its rank in
\* that order, among names up to MaxMigration.
MaxMigration == 4

MigrationNames == 1..MaxMigration

\* The migrations known to this build (the directories under sql/migrations).
all_migrations == {2, 3}

Max(S) == CHOOSE m \in S : \A n \in S : n <= m

NoResult == [kind |-> "none", last_applied |-> 0, last_known |-> 0]
Ok == [kind |-> "Ok", last_applied |-> 0, last_known |-> 0]

\* bail!("latest applied migration {} is newer than latest known migration {}
\* (hint: upgrade hasp version)", last_applied, last_known)
ErrNewer(last_applied, last_known) ==
    [kind |-> "latest applied migration is newer than latest known migration",
     last_applied |-> last_applied, last_known |-> last_known]

\* run_one_migration returned an error.
ErrMigration == [kind |-> "failed to perform migration", last_applied |-> 0, last_known |-> 0]

\* SELECT name FROM migration_status WHERE state == "applied" ORDER BY name DESC,
\* first row: the greatest applied name, or 0 for None.
last_applied_of(table) ==
    LET applied == { r.name : r \in { t \in table : t.state = "applied" } }
    IN  IF applied = {} THEN 0 ELSE Max(applied)

\* run_migrations: migrations_to_perform, for a build whose migrations are
\* known. With no applied row, all of them; with the last applied name a key of
\* the map, those after it; with the last applied name not a key, the error.
migrations_to_perform_of(known, table) ==
    LET last_applied == last_applied_of(table)
    IN  IF last_applied = 0
        THEN [error |-> FALSE, names |-> known]
        ELSE IF last_applied \in known
        THEN [error |-> FALSE, names |-> { m \in known : m > last_applied }]
        ELSE [error |-> TRUE, names |-> {}]

\* For the build of the running process.
migrations_to_perform(table) == migrations_to_perform_of(SQL_DIR_migrations, table)

Min(S) == CHOOSE m \in S : \A n \in S : m <= n

\* The iteration order of a BTreeMap range: ascending by key.
RECURSIVE ascending(_)
ascending(S) ==
    IF S = {} THEN << >> ELSE << Min(S) >> \o ascending(S \ {Min(S)})

\* Entries of init_trace: a script run on the connection, an event passed to
\* event_logger.log with the names it carries, or the commit.
Did(step, what, names) == [step |-> step, what |-> what, names |-> names]

\* The mutated rollback data: the failed migration is listed too.
rolled_back_with_failed(performed, name) == Append(performed, name)

\* RollbackData { rolled_back: migrations_performed }
rolled_back(performed, name) == performed

\* The loop of run_migrations over the names in order; fail is the name whose
\* run_one_migration returns an error (0: none does).
RECURSIVE migration_loop(_, _, _)
migration_loop(names, fail, migrations_performed) ==
    IF names = << >>
    THEN [ok |-> TRUE, performed |-> migrations_performed, trace |-> << >>]
    ELSE LET name == Head(names)
         IN  IF name = fail
             THEN [ok |-> FALSE, performed |-> migrations_performed,
                   trace |-> << Did("log", "migration_started", << name >>),
                                Did("log", "migration_rollback",
                                    rolled_back(migrations_performed, name)) >>]
             ELSE LET rest == migration_loop(Tail(names), fail,
                                             Append(migrations_performed, name))
                  IN  [rest EXCEPT !.trace =
                          << Did("log", "migration_started", << name >>),
                             Did("execute_batch", "up.sql", << name >>),
                             Did("log", "migration_finished", << name >>) >> \o @]

\* run_migrations of a build on the table: the result, the rows of the open
\* transaction after it, and what it ran and logged.
run_migrations_of(known, table, fail) ==
    LET todo == migrations_to_perform_of(known, table)
        loop == migration_loop(ascending(todo.names), fail, << >>)
    IN  IF todo.error
        THEN [result |-> ErrNewer(last_applied_of(table), Max(known)),
              table |-> table, trace |-> << >>]
        ELSE [result |-> IF loop.ok THEN Ok ELSE ErrMigration,
              table |-> table \cup { [name |-> loop.performed[i], state |-> "applied"] :
                                         i \in DOMAIN loop.performed },
              trace |-> loop.trace]

run_migrations(table) == run_migrations_of(all_migrations, table, 0)

\* Dropping a rusqlite Transaction that was not committed rolls it back.
txn_rolled_back(before, after) == before

\* The closure given to get_or_try_init: init.sql, events_init.sql and
\* run_migrations inside the initial transaction, then the commit; on an error
\* the transaction is dropped.
initialize_closure(known, table, fail) ==
    LET run == run_migrations_of(known, table, fail)
        scripts == << Did("execute_batch", "init.sql", << >>),
                      Did("execute_batch", "events_init.sql", << >>) >>
    IN  IF run.result = Ok
        THEN [result |-> Ok, table |-> run.table,
              trace |-> scripts \o run.trace \o << Did("commit", "txn", << >>) >>]
        ELSE [result |-> run.result, table |-> txn_rolled_back(table, run.table),
              trace |-> scripts \o run.trace]

\* Creators: creator 1 is the ConnectionCreator of a process, creator 2 its clone
\* (the two share one Arc<OnceCell>), the others are made by
\* ConnectionCreator::new in other processes of the same build.
NCreators == 3

Creators == 1..NCreators

\* The mutated clone: a OnceCell of its own.
cell_of_fresh(c) == c

\* #[derive(Clone)] on ConnectionCreator: initialized is an Arc, so the clone
\* shares the cell.
cell_of(c) == IF c = 2 THEN 1 ELSE c

----------------------------------------------------------------------------
\* The event journal

\* EventLogger::new has returned: one logger, the writer thread running, nothing
\* sent, the journal table empty.
LoggerCreated ==
    /\ loggers = 1
    /\ channel = << >>
    /\ writer = "running"
    /\ events_journal = << >>
    /\ owner = "running"
    /\ join_handle = 1

----------------------------------------------------------------------------
\* Initial state: an empty home, nothing committed, no lock held.

ProcAssignments == { f \in [Pipes -> Pipes] : \A p \in Pipes : f[p] <= p /\ f[f[p]] = f[p] }

InitWith(forces) ==
    /\ proc \in ProcAssignments
    /\ req \in [Pipes -> Reqs]
    /\ req[1].default_features    \* the two metadata values are interchangeable
    /\ force \in forces
    /\ pc = [p \in Pipes |-> "start"]
    /\ status = [p \in Pipes |-> "none"]
    /\ ret = [p \in Pipes |-> "none"]
    /\ hash = [p \in Pipes |-> new_directory_hash(namespace, req[p].name,
                   resolved_version(req[p].name), req[p].default_features)]
    /\ row = [p \in Pipes |-> 0]
    /\ lock = [h \in Hashes |-> 0]
    /\ directories = << >>
    /\ installed = << >>
    /\ installed_files = {}
    /\ txn = [p \in Pipes |-> NoTxn]
    /\ fs = [h \in Hashes |-> Absent]
    /\ temp_dir = [p \in Pipes |-> NoTempDir]
    /\ guard = [p \in Pipes |-> NoGuard]
    /\ pre = [p \in Pipes |-> NoPre]
    /\ journal = [p \in Pipes |-> << >>]

\* HaspState::load_or_init has run on the empty home: all migrations applied.
Initialized ==
    /\ migration_status = run_migrations({}).table
    /\ init_result = run_migrations({}).result
    /\ initialized = [c \in Creators |-> TRUE]
    /\ init_trace = << >>
    /\ SQL_DIR_migrations = all_migrations
    /\ LoggerCreated

\* No serialisation is under way.
NoVersion ==
    [variant |-> "none", major |-> 0, minor |-> 0, patch |-> 0,
     pre |-> << >>, build |-> << >>, literal |-> << >>]

NoInput == [kind |-> "none", numeric |-> 0, text |-> << >>, version |-> NoVersion]
NoOutput == [op |-> "none", ok |-> FALSE, numeric |-> 0, text |-> << >>, version |-> NoVersion]

CodecIdle ==
    /\ codec_in = NoInput
    /\ codec_out = NoOutput

\* cargo_install calls install(false).
Init == InitWith([Pipes -> {FALSE}]) /\ Initialized /\ CodecIdle

\* PackageInstaller::install with either value of its force argument.
InitForce == InitWith([Pipes -> BOOLEAN]) /\ Initialized /\ CodecIdle

\* No install is requested: the pipelines stay at their start.
PipelinesIdle ==
    /\ InitWith([Pipes -> {FALSE}])
    /\ proc = [p \in Pipes |-> p]
    /\ req = [p \in Pipes |-> [name |-> "ripgrep", default_features |-> TRUE]]

----------------------------------------------------------------------------
\* The pipeline, one action per step that other pipelines can observe

\* HaspState::cargo_install up to the first await that suspends: the Matcher's
\* lookup, then (no installed match) make_resolver, make_fetcher and the start
\* of PackageFetcher::fetch, which creates the staging parent and fetch/.
cargo_install(p) ==
    /\ pc[p] = "start"
    /\ ~cpu_busy(p) /\ ~proc_dead(proc[p])
    /\ IF best_installed_match(req[p]) # {}
       THEN /\ status' = [status EXCEPT ![p] = AlreadyInstalled]
            /\ pc' = [pc EXCEPT ![p] = "done"]
            /\ UNCHANGED temp_dir
       ELSE /\ temp_dir' = [temp_dir EXCEPT ![p] = [NoTempDir EXCEPT !.exists = TRUE]]
            /\ pc' = [pc EXCEPT ![p] = "fetch"]
            /\ UNCHANGED status
    /\ UNCHANGED << dbvars, proc, req, force, ret, hash, row, lock, directories, installed,
                    installed_files, txn, fs, guard, pre, journal >>

\* PackageFetcher::fetch: the fetch fails (download, extraction).
fetch_error(p) ==
    /\ pc[p] = "fetch"
    /\ ~cpu_busy(p) /\ ~proc_dead(proc[p])
    /\ status' = [status EXCEPT ![p] = ErrFetch]
    /\ temp_dir' = drop_temp_dir(p)
    /\ pc' = [pc EXCEPT ![p] = "done"]
    /\ UNCHANGED << dbvars, proc, req, force, ret, hash, row, lock, directories, installed,
                    installed_files, txn, fs, guard, pre, journal >>

\* A future that has not completed is dropped when its process gives up.
cancel(p) ==
    /\ pc[p] \in {"start", "fetch"}
    /\ proc_dead(proc[p])
    /\ status' = [status EXCEPT ![p] = Cancelled]
    /\ temp_dir' = drop_temp_dir(p)
    /\ pc' = [pc EXCEPT ![p] = "done"]
    /\ UNCHANGED << dbvars, proc, req, force, ret, hash, row, lock, directories, installed,
                    installed_files, txn, fs, guard, pre, journal >>

\* PackageFetcher::fetch succeeds and calls PackageInstaller::new, which opens a
\* connection and a transaction and looks the directory up with
\* best_match_for_version (the cargo matcher takes the first row of the result,
\* whose order SQL leaves open), then make_install_path. With a row found the
\* transaction is committed; with none it stays open for insert_new.
PackageInstaller_new(p) ==
    /\ pc[p] = "fetch"
    /\ ~cpu_busy(p) /\ ~proc_dead(proc[p])
    /\ LET matches == all_matches_for_version(req[p].name, resolved_version(req[p].name))
       IN  \/ \E d \in matches :
                /\ row' = [row EXCEPT ![p] = d]
                /\ hash' = [hash EXCEPT ![p] = directories[d].hash]
                /\ fs' = [fs EXCEPT ![directories[d].hash] = make_install_path(@)]
                /\ pc' = [pc EXCEPT ![p] = "inst_lock"]
                /\ UNCHANGED txn
           \/ /\ matches = {}
              /\ fs' = [fs EXCEPT ![hash[p]] = make_install_path(@)]
              /\ txn' = [txn EXCEPT ![p] = [NoTxn EXCEPT !.open = TRUE]]
              /\ pc' = [pc EXCEPT ![p] = "new_lock"]
              /\ UNCHANGED << row, hash >>
    /\ UNCHANGED << dbvars, proc, req, force, status, ret, lock, directories, installed,
                    installed_files, temp_dir, guard, pre, journal >>

\* PackageInstaller::new: init_context.open_lockfile()?.lock_exclusive()?
InitContext_lock_exclusive(p) ==
    /\ pc[p] = "new_lock"
    /\ lock_exclusive_ready(hash[p])
    /\ lock' = [lock EXCEPT ![hash[p]] = p]
    /\ pc' = [pc EXCEPT ![p] = "new_insert"]
    /\ UNCHANGED << dbvars, proc, req, force, status, ret, hash, row, directories, installed,
                    installed_files, txn, fs, temp_dir, guard, pre, journal >>

\* ExclusiveRoot<InitContext>::insert_new, then txn.commit() and the release of
\* the lock at the end of the match arm. A failed INSERT returns the error with
\* `?`: the locals of the match arm are dropped first, so the lock is released
\* while the transaction, a local of the function body, is still open.
insert_new(p) ==
    /\ pc[p] = "new_insert"
    /\ IF directories_unique(namespace, req[p].name, hash[p])
       THEN /\ directories' = Append(directories,
                   [namespace |-> namespace, name |-> req[p].name, hash |-> hash[p],
                    version |-> resolved_version(req[p].name),
                    metadata |-> req[p].default_features, installed |-> FALSE])
            /\ row' = [row EXCEPT ![p] = Len(directories) + 1]
            /\ pc' = [pc EXCEPT ![p] = "inst_lock"]
            /\ txn' = [txn EXCEPT ![p] = NoTxn]
       ELSE /\ pc' = [pc EXCEPT ![p] = "new_err"]
            /\ UNCHANGED << directories, row, txn >>
    /\ lock' = unlock(p, hash[p])
    /\ UNCHANGED << dbvars, proc, req, force, status, ret, hash, installed, installed_files,
                    fs, temp_dir, guard, pre, journal >>

\* PackageInstaller::new returning the error of insert_new: after the locals of
\* the match arm, the locals of the body (txn, conn) and then the parameters
\* (temp_dir) are dropped; the dropped transaction rolls back.
PackageInstaller_new_err(p) ==
    /\ pc[p] = "new_err"
    /\ txn' = [txn EXCEPT ![p] = NoTxn]
    /\ temp_dir' = drop_temp_dir(p)
    /\ status' = [status EXCEPT ![p] = ErrInsert]
    /\ pc' = [pc EXCEPT ![p] = "done"]
    /\ UNCHANGED << dbvars, proc, req, force, ret, hash, row, lock, directories, installed,
                    installed_files, fs, guard, pre, journal >>

\* PackageInstaller::install: creator.create()?, self.open_lockfile()?.lock_exclusive()?
PackageInstaller_lock_exclusive(p) ==
    /\ pc[p] = "inst_lock"
    /\ lock_exclusive_ready(hash[p])
    /\ lock' = [lock EXCEPT ![hash[p]] = p]
    /\ pc' = [pc EXCEPT ![p] = "inst_check"]
    /\ UNCHANGED << dbvars, proc, req, force, status, ret, hash, row, directories, installed,
                    installed_files, txn, fs, temp_dir, guard, pre, journal >>

\* InstallGuard::new as called by start_install(true): install-new/ is created,
\* install_started is logged.
InstallGuard_new(p, f) == [exists |-> TRUE, force |-> f, finished |-> FALSE]

\* PackageInstaller::install under the lock: the installed check, then either
\* AlreadyInstalled (the lock and the PackageInstaller are dropped on return) or
\* start_install(true).
install(p) ==
    /\ pc[p] = "inst_check"
    /\ IF get_installed(row[p]) /\ ~force[p]
       THEN /\ status' = [status EXCEPT ![p] = AlreadyInstalled]
            /\ lock' = unlock(p, hash[p])
            /\ temp_dir' = drop_temp_dir(p)
            /\ pc' = [pc EXCEPT ![p] = "done"]
            /\ UNCHANGED << guard, pre, journal >>
       ELSE /\ guard' = [guard EXCEPT ![p] = InstallGuard_new(p, TRUE)]
            /\ temp_dir' = [temp_dir EXCEPT ![p].new = Empty]
            /\ journal' = [journal EXCEPT ![p] = Append(@, InstallStarted(p, TRUE))]
            /\ pre' = [pre EXCEPT ![p] = DirState(row[p])]
            /\ pc' = [pc EXCEPT ![p] = "build"]
            /\ UNCHANGED << status, lock >>
    /\ UNCHANGED << dbvars, proc, req, force, ret, hash, row, directories, installed,
                    installed_files, txn, fs >>

\* What a run of the build tool gives: whether it exited with status zero, and
\* the executables named by the compiler-artifact messages it wrote before exiting.
ToolOutputs == [exit_success : BOOLEAN, executables : SUBSET (built_files \ {"Cargo.lock"})]

\* CargoInstaller::install: the expression is unchecked(), so the exit status of
\* the tool is not looked at; the result is an error only when no executable
\* was reported, else the executables plus Cargo.lock.
CargoInstaller_install(out) ==
    IF out.executables = {}
    THEN [ok |-> FALSE, installed_files |-> {}]
    ELSE [ok |-> TRUE, installed_files |-> out.executables \cup {"Cargo.lock"}]

\* InstallGuard::install with tool output out: the build returns its files and
\* they are moved into install-new/.
InstallGuard_install_with(p, out) ==
    /\ pc[p] = "build"
    /\ ~cpu_busy(p)
    /\ CargoInstaller_install(out).ok
    /\ temp_dir' = [temp_dir EXCEPT ![p].new = Built(p)]
    /\ pc' = [pc EXCEPT ![p] = "finish"]
    /\ UNCHANGED << dbvars, proc, req, force, status, ret, hash, row, lock, directories, installed,
                    installed_files, txn, fs, guard, pre, journal >>

InstallGuard_install(p) == \E out \in ToolOutputs : InstallGuard_install_with(p, out)

\* install_and_finish: the build returns an error (InstallError::Fail), and
\* log_and_rollback rolls back with ProcessFailed.
build_failed(p) ==
    /\ pc[p] = "build"
    /\ ~cpu_busy(p)
    /\ \E out \in ToolOutputs : ~CargoInstaller_install(out).ok
    /\ LET r == rollback(p, guard[p], journal[p], log_and_rollback_reason("Fail"), "build failed")
       IN  /\ guard' = [guard EXCEPT ![p] = r.guard]
           /\ journal' = [journal EXCEPT ![p] = r.journal]
    /\ ret' = [ret EXCEPT ![p] = Failure]
    /\ pc' = [pc EXCEPT ![p] = "unwind"]
    /\ UNCHANGED << dbvars, proc, req, force, status, hash, row, lock, directories, installed,
                    installed_files, txn, fs, temp_dir, pre >>

\* The build panics: the stack unwinds and the guard is dropped with neither
\* finish nor an explicit rollback.
build_panicked(p) ==
    /\ pc[p] = "build"
    /\ ~cpu_busy(p)
    /\ ret' = [ret EXCEPT ![p] = Panicked]
    /\ pc' = [pc EXCEPT ![p] = "unwind"]
    /\ UNCHANGED << dbvars, proc, req, force, status, hash, row, lock, directories, installed,
                    installed_files, txn, fs, temp_dir, guard, pre, journal >>

\* finish goes on whether or not the guard is finished.
finish_enters_always(g) == TRUE

\* InstallGuard::finish: `if self.finished { return Ok(()) }`.
finish_enters(g) == ~g.finished

\* finish without its first rename: the tree at the install path stays there.
rename_non_racy_skipped(p) ==
    /\ pc[p] = "finish"
    /\ ~guard[p].finished
    /\ txn' = [txn EXCEPT ![p] = [NoTxn EXCEPT !.open = TRUE]]
    /\ pc' = [pc EXCEPT ![p] = "fin_new"]
    /\ UNCHANGED << dbvars, proc, req, force, status, ret, hash, row, lock, directories, installed,
                    installed_files, fs, temp_dir, guard, pre, journal >>

\* InstallGuard::finish, to its first rename: the guard is not finished, the
\* connection and the transaction are opened, and rename_non_racy(install_path,
\* old_dir) moves the tree at the install path away (NotFound is ignored).
rename_non_racy(p) ==
    /\ pc[p] = "finish"
    /\ finish_enters(guard[p])
    /\ txn' = [txn EXCEPT ![p] = [NoTxn EXCEPT !.open = TRUE]]
    /\ IF fs[hash[p]] = Absent
       THEN UNCHANGED << fs, temp_dir >>
       ELSE /\ temp_dir' = [temp_dir EXCEPT ![p].old = fs[hash[p]]]
            /\ fs' = [fs EXCEPT ![hash[p]] = Absent]
    /\ pc' = [pc EXCEPT ![p] = "fin_new"]
    /\ UNCHANGED << dbvars, proc, req, force, status, ret, hash, row, lock, directories, installed,
                    installed_files, guard, pre, journal >>

\* fs::rename(new_dir, install_path): a directory replaces nothing or an empty directory.
rename_new_dir(p) ==
    /\ pc[p] = "fin_new"
    /\ fs[hash[p]] \in {Absent, Empty}
    /\ fs' = [fs EXCEPT ![hash[p]] = temp_dir[p].new]
    /\ temp_dir' = [temp_dir EXCEPT ![p].new = Absent]
    /\ pc' = [pc EXCEPT ![p] = "fin_write"]
    /\ UNCHANGED << dbvars, proc, req, force, status, ret, hash, row, lock, directories, installed,
                    installed_files, txn, guard, pre, journal >>

\* The bytes of file name in a tree: a built file is not empty, and its bytes
\* depend on the file and on the build that wrote it.
file_content(tree, name) ==
    IF tree.kind = "built" THEN << name, tree.by >> ELSE << >>

\* blake3 of a byte sequence; the digest stands for the bytes hashed.
blake3(bytes) == [algorithm |-> "blake3", input |-> bytes]

\* The length of the slice that hash_file hands to File::read: buf is
\* Vec::with_capacity(64 * 1024 * 1024), whose len() is 0.
buf_len == 0

\* The loop of hash_file from offset pos, with the bytes fed to the hasher so
\* far: read returns at most buf_len bytes, and 0 ends the loop.
RECURSIVE hash_file_loop(_, _, _)
hash_file_loop(content, pos, hashed) ==
    LET rest == Len(content) - pos
        read_len == IF rest < buf_len THEN rest ELSE buf_len
    IN  IF read_len = 0
        THEN hashed
        ELSE hash_file_loop(content, pos + read_len,
                            hashed \o SubSeq(content, pos + 1, pos + read_len))

\* hash_file of the file name in the tree at the install path.
hash_file(tree, name) == blake3(hash_file_loop(file_content(tree, name), 0, << >>))

\* The INSERT into packages.installed is left out of the transaction.
finish_writes_without_install(p) ==
    [ open |-> TRUE, install |-> FALSE, set_installed |-> TRUE,
      files |-> { [name |-> n, hash |-> hash_file(fs[hash[p]], n)] : n \in built_files } ]

\* set_installed(true) is left out of the transaction.
finish_writes_without_flag(p) ==
    [ open |-> TRUE, install |-> TRUE, set_installed |-> FALSE,
      files |-> { [name |-> n, hash |-> hash_file(fs[hash[p]], n)] : n \in built_files } ]

\* The writes of finish inside its transaction: the INSERT into
\* packages.installed, set_installed(true), and one INSERT into
\* packages.installed_files per file, with the hash of the file at the install path.
finish_writes(p) ==
    [ open |-> TRUE, install |-> TRUE, set_installed |-> TRUE,
      files |-> { [name |-> n, hash |-> hash_file(fs[hash[p]], n)] : n \in built_files } ]

finish_write(p) ==
    /\ pc[p] = "fin_write"
    /\ fs[hash[p]].kind = "built"
    /\ txn' = [txn EXCEPT ![p] = finish_writes(p)]
    /\ pc' = [pc EXCEPT ![p] = "fin_commit"]
    /\ UNCHANGED << dbvars, proc, req, force, status, ret, hash, row, lock, directories, installed,
                    installed_files, fs, temp_dir, guard, pre, journal >>

\* txn.commit(): the writes of transaction t of pipeline p become visible together.
txn_commit(p, t) ==
    [ directories |->
        IF t.set_installed THEN [directories EXCEPT ![row[p]].installed = TRUE] ELSE directories,
      installed |->
        IF t.install THEN Append(installed, [directory_id |-> row[p], by |-> p]) ELSE installed,
      installed_files |->
        installed_files \cup
            { [install_id |-> Len(installed) + 1, name |-> f.name, hash |-> f.hash] : f \in t.files } ]

\* The transaction is committed when it is dropped.
txn_drop_commits(p, t) == txn_commit(p, t)

\* A Transaction dropped without commit() rolls back: none of its writes is visible.
txn_drop(p, t) ==
    [ directories |-> directories, installed |-> installed, installed_files |-> installed_files ]

\* finish leaves the guard unfinished.
not_finished(g) == g

\* finish: self.finished = true
set_finished(g) == [g EXCEPT !.finished = TRUE]

\* The end of finish: txn.commit(), finished = true, install_success is logged.
finish_commit(p) ==
    /\ pc[p] = "fin_commit"
    /\ LET c == txn_commit(p, txn[p])
       IN  /\ directories' = c.directories
           /\ installed' = c.installed
           /\ installed_files' = c.installed_files
    /\ txn' = [txn EXCEPT ![p] = NoTxn]
    /\ guard' = [guard EXCEPT ![p] = set_finished(@)]
    /\ journal' = [journal EXCEPT ![p] = Append(@, InstallSuccess(p, guard[p].force))]
    /\ ret' = [ret EXCEPT ![p] = Success]
    /\ pc' = [pc EXCEPT ![p] = "unwind"]
    /\ UNCHANGED << dbvars, proc, req, force, status, hash, row, lock, fs, temp_dir, pre >>

\* install_and_finish: a step of the commit raises (the move of the built files
\* in InstallGuard::install, or any `?` of finish): the transaction is dropped
\* uncommitted and log_and_rollback rolls back with Aborted.
AbortPcs == {"build", "finish", "fin_new", "fin_write", "fin_commit"}

commit_step_error(p) ==
    /\ pc[p] \in AbortPcs
    /\ ~cpu_busy(p)
    /\ LET c == txn_drop(p, txn[p])
       IN  /\ directories' = c.directories
           /\ installed' = c.installed
           /\ installed_files' = c.installed_files
    /\ txn' = [txn EXCEPT ![p] = NoTxn]
    /\ LET r == rollback(p, guard[p], journal[p], log_and_rollback_reason("Abort"), "commit step failed")
       IN  /\ guard' = [guard EXCEPT ![p] = r.guard]
           /\ journal' = [journal EXCEPT ![p] = r.journal]
    /\ ret' = [ret EXCEPT ![p] = ErrAbort]
    /\ pc' = [pc EXCEPT ![p] = "unwind"]
    /\ UNCHANGED << dbvars, proc, req, force, status, hash, row, lock, fs, temp_dir, pre >>

\* The guard goes out of scope at the end of install_and_finish (or while
\* unwinding): Drop for InstallGuard calls rollback with TRANSACTION_DROPPED,
\* the ExclusiveRoot it owns is dropped, install returns and cargo_install drops
\* the PackageInstaller with its staging directory.
InstallGuard_drop(p) ==
    /\ pc[p] = "unwind"
    /\ LET r == rollback(p, guard[p], journal[p], "Aborted", TRANSACTION_DROPPED)
       IN  /\ guard' = [guard EXCEPT ![p] = [r.guard EXCEPT !.exists = FALSE]]
           /\ journal' = [journal EXCEPT ![p] = r.journal]
    /\ lock' = unlock(p, hash[p])
    /\ temp_dir' = drop_temp_dir(p)
    /\ status' = [status EXCEPT ![p] = ret[p]]
    /\ ret' = [ret EXCEPT ![p] = "none"]
    /\ pre' = [pre EXCEPT ![p] = NoPre]
    /\ pc' = [pc EXCEPT ![p] = "done"]
    /\ UNCHANGED << dbvars, proc, req, force, hash, row, directories, installed,
                    installed_files, txn, fs >>

----------------------------------------------------------------------------
Next ==
    \E p \in Pipes :
        \/ cargo_install(p)
        \/ fetch_error(p)
        \/ cancel(p)
        \/ PackageInstaller_new(p)
        \/ InitContext_lock_exclusive(p)
        \/ insert_new(p)
        \/ PackageInstaller_new_err(p)
        \/ PackageInstaller_lock_exclusive(p)
        \/ install(p)
        \/ InstallGuard_install(p)
        \/ build_failed(p)
        \/ build_panicked(p)
        \/ rename_non_racy(p)
        \/ rename_new_dir(p)
        \/ finish_write(p)
        \/ finish_commit(p)
        \/ commit_step_error(p)
        \/ InstallGuard_drop(p)

Spec == Init /\ [][Next]_vars

SpecForce == InitForce /\ [][Next]_vars

\* The process pr dies (kill, power loss) while one of its pipelines is past the
\* fetch: no destructor runs. The open files are closed, which releases the
\* flocks; the uncommitted transactions are never committed; the install paths
\* and the staging directories stay on disk as they are; no event is logged.
crash(pr) ==
    /\ \E q \in Pipes : proc[q] = pr /\ pc[q] \in SyncPcs
    /\ LET dying == { q \in Pipes : proc[q] = pr /\ pc[q] # "done" }
       IN  /\ pc' = [q \in Pipes |-> IF q \in dying THEN "done" ELSE pc[q]]
           /\ status' = [q \in Pipes |-> IF q \in dying THEN Crashed ELSE status[q]]
           /\ txn' = [q \in Pipes |-> IF q \in dying THEN NoTxn ELSE txn[q]]
           /\ guard' = [q \in Pipes |-> IF q \in dying THEN NoGuard ELSE guard[q]]
           /\ lock' = [h \in Hashes |-> IF lock[h] \in dying THEN 0 ELSE lock[h]]
    /\ UNCHANGED << dbvars, proc, req, force, ret, hash, row, directories, installed,
                    installed_files, fs, temp_dir, pre, journal >>

NextCrash == Next \/ \E pr \in Pipes : crash(pr)

\* The pipelines, with processes that may die at any point past the fetch.
SpecCrash == Init /\ [][NextCrash]_vars

\* The steps of pipeline p.
Step(p) ==
    \/ cargo_install(p)
    \/ fetch_error(p)
    \/ cancel(p)
    \/ PackageInstaller_new(p)
    \/ InitContext_lock_exclusive(p)
    \/ insert_new(p)
    \/ PackageInstaller_new_err(p)
    \/ PackageInstaller_lock_exclusive(p)
    \/ install(p)
    \/ InstallGuard_install(p)
    \/ build_failed(p)
    \/ build_panicked(p)
    \/ rename_non_racy(p)
    \/ rename_new_dir(p)
    \/ finish_write(p)
    \/ finish_commit(p)
    \/ commit_step_error(p)
    \/ InstallGuard_drop(p)

----------------------------------------------------------------------------
\* Start-up on a catalog whose migration_status table was written earlier, by
\* this build or by another one.

MigrationStates == {"applied", "rolled_back"}

\* The rows of a table given, for each name, its state or "absent".
rows_of(f) == { [name |-> m, state |-> f[m]] : m \in { n \in DOMAIN f : f[n] # "absent" } }

SeededTables == { rows_of(f) : f \in [MigrationNames -> MigrationStates \cup {"absent"}] }

InitMigrations ==
    /\ PipelinesIdle
    /\ CodecIdle
    /\ migration_status \in SeededTables
    /\ init_result = NoResult
    /\ initialized = [c \in Creators |-> FALSE]
    /\ init_trace = << >>
    /\ SQL_DIR_migrations = all_migrations
    /\ LoggerCreated

pipeline_vars == << proc, req, force, pc, status, ret, hash, row, lock, directories,
                    installed, installed_files, txn, fs, temp_dir, guard, pre, journal >>

\* ConnectionCreator::initialize called on creator c of a build whose migrations
\* are known: get_or_try_init runs the closure only when the cell is not set,
\* and sets the cell only when the closure returns Ok.
initialize_as(c, known, fail) ==
    /\ IF initialized[cell_of(c)]
       THEN /\ init_result' = Ok
            /\ init_trace' = << >>
            /\ UNCHANGED << migration_status, initialized >>
       ELSE LET run == initialize_closure(known, migration_status, fail)
            IN  /\ init_result' = run.result
                /\ init_trace' = run.trace
                /\ migration_status' = run.table
                /\ initialized' = [initialized EXCEPT ![cell_of(c)] = (run.result = Ok)]
    /\ UNCHANGED << pipeline_vars, SQL_DIR_migrations, logvars, codecvars >>

\* initialize in which no migration fails.
initialize(c) == initialize_as(c, SQL_DIR_migrations, 0)

\* initialize in which run_one_migration fails on one of the migrations to
\* perform.
migration_failed(c) ==
    /\ ~initialized[cell_of(c)]
    /\ \E k \in migrations_to_perform(migration_status).names :
           initialize_as(c, SQL_DIR_migrations, k)

NextMigrations ==
    \E c \in Creators :
        \/ initialize(c)
        \/ migration_failed(c)

SpecMigrations == InitMigrations /\ [][NextMigrations]_vars

----------------------------------------------------------------------------
\* One catalog opened over time by processes of several builds of hasp, each
\* with its own sql/migrations.

\* The builds: this one and those that know additional migrations.
Builds == { known \in SUBSET MigrationNames : all_migrations \subseteq known }

InitBuilds ==
    /\ PipelinesIdle
    /\ CodecIdle
    /\ migration_status = {}
    /\ init_result = NoResult
    /\ initialized = [c \in Creators |-> FALSE]
    /\ init_trace = << >>
    /\ SQL_DIR_migrations = all_migrations
    /\ LoggerCreated

\* A new process of a build starts on the catalog: its ConnectionCreators are
\* made by ConnectionCreator::new, with cells that are not set.
ConnectionCreator_new(known) ==
    /\ SQL_DIR_migrations' = known
    /\ initialized' = [c \in Creators |-> FALSE]
    /\ init_result' = NoResult
    /\ init_trace' = << >>
    /\ UNCHANGED << pipeline_vars, migration_status, logvars, codecvars >>

NextBuilds ==
    \/ \E known \in Builds : ConnectionCreator_new(known)
    \/ \E c \in Creators : initialize(c)
    \/ \E c \in Creators : migration_failed(c)

SpecBuilds == InitBuilds /\ [][NextBuilds]_vars

----------------------------------------------------------------------------
\* The EventLogger, its clones and the writer thread.

\* The events logged in one run are at most MaxEvents, the live loggers at most
\* MaxLoggers.
MaxEvents == 3
MaxLoggers == 2

EventNames == {"install_started", "install_failed"}

InitEvents ==
    /\ PipelinesIdle
    /\ Initialized
    /\ CodecIdle

\* Drop of the jod_thread::JoinHandle: joins the writer thread and, when the
\* thread panicked, panics in the dropping thread.
join_on_drop(w) == IF w = "panicked" THEN "panicked" ELSE "released"

\* #[derive(Clone)] on EventLogger: another sender and another reference to the
\* join handle. loggers counts the senders.
EventLogger_clone ==
    /\ owner = "running" /\ loggers > 0 /\ join_handle < MaxLoggers
    /\ loggers' = loggers + 1
    /\ join_handle' = join_handle + 1
    /\ UNCHANGED << channel, writer, events_journal, owner >>
    /\ UNCHANGED << pipeline_vars, schemavars, codecvars >>

\* What a producer hands to the channel: the event, tagged here with the logger
\* that sent it and its rank among the events of that logger.
Event(l, event_name, n) == [producer |-> l, event_name |-> event_name, seq |-> n]

\* The events of logger l in a sequence of events, in order.
RECURSIVE events_of(_, _)
events_of(l, events) ==
    IF events = << >> THEN << >>
    ELSE (IF Head(events).producer = l THEN << Head(events) >> ELSE << >>)
             \o events_of(l, Tail(events))

\* The mutated channel: the newest message is received first.
send_in_front(queue, event) == << event >> \o queue

\* mpsc::Sender::send on the unbounded channel: the message goes behind those
\* already queued.
send(queue, event) == Append(queue, event)

\* EventLogger::log by logger l: send on the unbounded channel; a send error
\* (the receiver is gone) is ignored.
EventLogger_log(l, event_name) ==
    /\ owner = "running" /\ l \in 1..loggers
    /\ Len(channel) + Len(events_journal) < MaxEvents
    /\ channel' = IF writer = "running"
                  THEN send(channel, Event(l, event_name,
                                           Len(events_of(l, events_journal \o channel)) + 1))
                  ELSE channel
    /\ UNCHANGED << loggers, writer, events_journal, owner, join_handle >>
    /\ UNCHANGED << pipeline_vars, schemavars, codecvars >>

\* The writer thread receives an event and the INSERT succeeds.
writer_insert ==
    /\ writer = "running" /\ channel # << >>
    /\ events_journal' = Append(events_journal, Head(channel))
    /\ channel' = Tail(channel)
    /\ UNCHANGED << loggers, writer, owner, join_handle >>
    /\ UNCHANGED << pipeline_vars, schemavars, codecvars >>

\* The writer thread receives an event and the INSERT fails: expect("wat")
\* panics, and the receiver is dropped with what was still queued.
writer_insert_fails ==
    /\ writer = "running" /\ channel # << >>
    /\ writer' = "panicked"
    /\ channel' = << >>
    /\ UNCHANGED << loggers, events_journal, owner, join_handle >>
    /\ UNCHANGED << pipeline_vars, schemavars, codecvars >>

\* recv returns Err: all senders were dropped and the channel is empty.
writer_exit ==
    /\ writer = "running" /\ channel = << >> /\ loggers = 0
    /\ writer' = "exited"
    /\ UNCHANGED << loggers, channel, events_journal, owner, join_handle >>
    /\ UNCHANGED << pipeline_vars, schemavars, codecvars >>

\* The mutated drop: the join handle of a logger may go before its sender.
dropped_in_any_order(senders, handles) == handles > 0

\* The fields of a struct are dropped in the order of their declaration: a
\* logger gives up its reference to the join handle only after its sender, so
\* a reference that can be dropped belongs to a logger whose sender is gone.
dropped_in_declaration_order(senders, handles) == handles > senders

\* Drop of an EventLogger, first field: the sender.
EventLogger_drop_sender ==
    /\ owner = "running" /\ loggers > 0
    /\ loggers' = loggers - 1
    /\ UNCHANGED << channel, writer, events_journal, owner, join_handle >>
    /\ UNCHANGED << pipeline_vars, schemavars, codecvars >>

\* Drop of an EventLogger, second field: the reference to the join handle. The
\* drop of the last reference drops the jod_thread::JoinHandle, which joins the
\* writer thread: the dropping thread waits.
EventLogger_drop_join_handle ==
    /\ owner = "running" /\ dropped_in_declaration_order(loggers, join_handle)
    /\ join_handle' = join_handle - 1
    /\ owner' = IF join_handle = 1 THEN "joining" ELSE owner
    /\ UNCHANGED << loggers, channel, writer, events_journal >>
    /\ UNCHANGED << pipeline_vars, schemavars, codecvars >>

\* The join returns when the writer thread has ended.
JoinHandle_drop ==
    /\ owner = "joining" /\ writer # "running"
    /\ owner' = join_on_drop(writer)
    /\ UNCHANGED << loggers, channel, writer, events_journal, join_handle >>
    /\ UNCHANGED << pipeline_vars, schemavars, codecvars >>

NextEvents ==
    \/ EventLogger_clone
    \/ \E l \in 1..MaxLoggers, event_name \in EventNames : EventLogger_log(l, event_name)
    \/ writer_insert
    \/ writer_insert_fails
    \/ writer_exit
    \/ EventLogger_drop_sender
    \/ EventLogger_drop_join_handle
    \/ JoinHandle_drop

SpecEvents == InitEvents /\ [][NextEvents]_vars

----------------------------------------------------------------------------
\* DirectoryHash: its display, JSON and catalog forms. A string is a sequence
\* of characters. The hash has size_of_u64 bytes (8 in the source).

size_of_u64 == 1

\* DirectoryHash::WIDTH
WIDTH == size_of_u64 * 2

HexDigits == << "0", "1", "2", "3", "4", "5", "6", "7", "8", "9", "a", "b", "c", "d", "e", "f" >>

\* The characters of the strings given to the parser: some digits, some of
\* a..f, and characters outside [0-9a-f].
Alphabet == {"0", "7", "9", "a", "f", "g", "A", "+"}

RECURSIVE StringsUpTo(_)
StringsUpTo(n) ==
    IF n = 0 THEN { << >> }
    ELSE StringsUpTo(n - 1) \cup
         { Append(s, c) : s \in { t \in StringsUpTo(n - 1) : Len(t) = n - 1 }, c \in Alphabet }

RECURSIVE pow(_, _)
pow(b, e) == IF e = 0 THEN 1 ELSE b * pow(b, e - 1)

Numerics == 0..(pow(256, size_of_u64) - 1)

\* The x format: the digits of n in base 16, most significant first.
RECURSIVE lower_hex(_)
lower_hex(n) ==
    IF n < 16 THEN << HexDigits[n + 1] >> ELSE Append(lower_hex(n \div 16), HexDigits[(n % 16) + 1])

\* The mutated format: no leading zeroes.
not_padded(s, width) == s

\* The 0width flag: leading zeroes up to width characters.
RECURSIVE zero_padded(_, _)
zero_padded(s, width) == IF Len(s) >= width THEN s ELSE zero_padded(<< "0" >> \o s, width)

\* Display for DirectoryHash: write!(f, "{:0width$x}", self.numeric, width = Self::WIDTH)
DirectoryHash_to_string(numeric) == zero_padded(lower_hex(numeric), WIDTH)

is_ascii_digit(c) == c \in {"0", "1", "2", "3", "4", "5", "6", "7", "8", "9"}

\* u64::from_str_radix(s, 16) on a string of hex digits: an error on overflow.
RECURSIVE from_str_radix(_, _)
from_str_radix(s, acc) ==
    IF s = << >> THEN [ok |-> acc \in Numerics, numeric |-> acc]
    ELSE from_str_radix(Tail(s),
             acc * 16 + (CHOOSE v \in 0..15 : HexDigits[v + 1] = Head(s)))

ParseError == [ok |-> FALSE, numeric |-> 0]

\* FromStr for DirectoryHash
DirectoryHash_from_str(s) ==
    IF Len(s) # WIDTH
    THEN ParseError
    ELSE IF ~(\A i \in DOMAIN s : is_ascii_digit(s[i]) \/ s[i] \in {"a", "b", "c", "d", "e", "f"})
    THEN ParseError
    ELSE from_str_radix(s, 0)

\* Serialize for DirectoryHash: the display form as a JSON string.
DirectoryHash_serialize(numeric) == << "\"" >> \o DirectoryHash_to_string(numeric) \o << "\"" >>

\* Deserialize for DirectoryHash: a JSON string, parsed with from_str.
DirectoryHash_deserialize(json) ==
    IF Len(json) >= 2 /\ json[1] = "\"" /\ json[Len(json)] = "\""
    THEN DirectoryHash_from_str(SubSeq(json, 2, Len(json) - 1))
    ELSE ParseError

\* ToSql for DirectoryHash: self.numeric.to_be_bytes()
to_be_bytes(numeric) ==
    [ i \in 1..size_of_u64 |-> (numeric \div pow(256, size_of_u64 - i)) % 256 ]

RECURSIVE from_be_bytes(_, _)
from_be_bytes(v, acc) == IF v = << >> THEN acc ELSE from_be_bytes(Tail(v), acc * 256 + Head(v))

\* FromSql for DirectoryHash: the blob must have the size of the integer.
DirectoryHash_column_result(v) ==
    IF Len(v) # size_of_u64 THEN ParseError ELSE [ok |-> TRUE, numeric |-> from_be_bytes(v, 0)]

\* An input of the tests: a hash, or a string given to the parser.
HashInput(kind, numeric, text) ==
    [kind |-> kind, numeric |-> numeric, text |-> text, version |-> NoVersion]

InitHash ==
    /\ PipelinesIdle
    /\ Initialized
    /\ \/ \E n \in Numerics : codec_in = HashInput("numeric", n, << >>)
       \/ \E s \in StringsUpTo(WIDTH + 1) : codec_in = HashInput("text", 0, s)
    /\ codec_out = NoOutput

Output(op, r, text) ==
    [op |-> op, ok |-> r.ok, numeric |-> r.numeric, text |-> text, version |-> NoVersion]

\* hash.to_string().parse()
directory_hash_to_string_roundtrip ==
    /\ codec_in.kind = "numeric" /\ codec_out = NoOutput
    /\ codec_out' = Output("to_string", DirectoryHash_from_str(DirectoryHash_to_string(codec_in.numeric)),
                           DirectoryHash_to_string(codec_in.numeric))
    /\ UNCHANGED << codec_in, pipeline_vars, schemavars, logvars >>

\* serde_json::from_str(&serde_json::to_string(&hash))
directory_hash_serde_roundtrip ==
    /\ codec_in.kind = "numeric" /\ codec_out = NoOutput
    /\ codec_out' = Output("serde", DirectoryHash_deserialize(DirectoryHash_serialize(codec_in.numeric)),
                           DirectoryHash_serialize(codec_in.numeric))
    /\ UNCHANGED << codec_in, pipeline_vars, schemavars, logvars >>

\* The hash written to a BLOB column and read back.
directory_hash_rusqlite_roundtrip ==
    /\ codec_in.kind = "numeric" /\ codec_out = NoOutput
    /\ codec_out' = Output("rusqlite", DirectoryHash_column_result(to_be_bytes(codec_in.numeric)), << >>)
    /\ UNCHANGED << codec_in, pipeline_vars, schemavars, logvars >>

\* s.parse::<DirectoryHash>(), and the display form of the result.
directory_hash_parse ==
    /\ codec_in.kind = "text" /\ codec_out = NoOutput
    /\ LET r == DirectoryHash_from_str(codec_in.text)
       IN  codec_out' = Output("parse", r, IF r.ok THEN DirectoryHash_to_string(r.numeric) ELSE << >>)
    /\ UNCHANGED << codec_in, pipeline_vars, schemavars, logvars >>

NextHash ==
    \/ directory_hash_to_string_roundtrip
    \/ directory_hash_serde_roundtrip
    \/ directory_hash_rusqlite_roundtrip
    \/ directory_hash_parse

SpecHash == InitHash /\ [][NextHash]_vars

----------------------------------------------------------------------------
\* DirectoryVersion: its display, JSON and catalog forms.

\* The numbers of a semantic version go up to MaxNumber, a literal text is made
\* of up to MaxPieces pieces.
MaxNumber == 10
MaxPieces == 3

\* DirectoryVersion::Semantic(semver::Version { major, minor, patch, pre, build })
Semantic(major, minor, patch, prerelease, build) ==
    [variant |-> "Semantic", major |-> major, minor |-> minor, patch |-> patch,
     pre |-> prerelease, build |-> build, literal |-> << >>]

\* DirectoryVersion::Literal(String)
Literal(text) ==
    [variant |-> "Literal", major |-> 0, minor |-> 0, patch |-> 0,
     pre |-> << >>, build |-> << >>, literal |-> text]

\* The mutated prefix: none.
empty_prefix == << >>

\* DirectoryVersion::SEM_PREFIX
SEM_PREFIX == << "s", "e", "m", ":" >>

\* DirectoryVersion::LIT_PREFIX
LIT_PREFIX == << "l", "i", "t", ":" >>

\* The decimal digits of n, as u64's Display writes them.
RECURSIVE decimal(_)
decimal(n) ==
    IF n < 10 THEN << HexDigits[n + 1] >> ELSE Append(decimal(n \div 10), HexDigits[(n % 10) + 1])

\* Display for semver::Version: major.minor.patch, then -pre and +build when
\* they are not empty.
semver_to_string(v) ==
    decimal(v.major) \o << "." >> \o decimal(v.minor) \o << "." >> \o decimal(v.patch)
        \o (IF v.pre = << >> THEN << >> ELSE << "-" >> \o v.pre)
        \o (IF v.build = << >> THEN << >> ELSE << "+" >> \o v.build)

\* Display for DirectoryVersion
DirectoryVersion_to_string(v) ==
    IF v.variant = "Semantic" THEN SEM_PREFIX \o semver_to_string(v) ELSE LIT_PREFIX \o v.literal

\* str::strip_prefix: the rest of s after the prefix, or None.
strip_prefix(s, prefix) ==
    IF Len(s) >= Len(prefix) /\ SubSeq(s, 1, Len(prefix)) = prefix
    THEN [some |-> TRUE, rest |-> SubSeq(s, Len(prefix) + 1, Len(s))]
    ELSE [some |-> FALSE, rest |-> << >>]

\* The index of the first c in s, or 0.
position(s, c) ==
    IF \E i \in DOMAIN s : s[i] = c THEN CHOOSE i \in DOMAIN s : s[i] = c /\ \A j \in 1..(i - 1) : s[j] # c
    ELSE 0

\* s split at every c.
RECURSIVE split(_, _)
split(s, c) ==
    IF position(s, c) = 0 THEN << s >>
    ELSE << SubSeq(s, 1, position(s, c) - 1) >> \o split(SubSeq(s, position(s, c) + 1, Len(s)), c)

is_digits(s) == \A i \in DOMAIN s : is_ascii_digit(s[i])

\* The characters of a semver identifier: ASCII letters, digits and the hyphen
\* (of the letters, those of the inputs).
is_identifier_char(c) == is_ascii_digit(c) \/ c \in {"a", "b", "s", "x", "-"}

\* A numeric part of a semver: digits without a leading zero.
is_numeric_part(s) == s # << >> /\ is_digits(s) /\ (Len(s) > 1 => s[1] # "0")

RECURSIVE decimal_value(_, _)
decimal_value(s, acc) ==
    IF s = << >> THEN acc
    ELSE decimal_value(Tail(s), acc * 10 + (CHOOSE v \in 0..9 : HexDigits[v + 1] = Head(s)))

\* semver::Prerelease::new: dot-separated identifiers, none empty, the numeric
\* ones without leading zeroes.
is_prerelease(s) ==
    \A i \in DOMAIN split(s, ".") :
        LET ident == split(s, ".")[i]
        IN  /\ ident # << >>
            /\ \A j \in DOMAIN ident : is_identifier_char(ident[j])
            /\ is_digits(ident) => is_numeric_part(ident)

\* semver::BuildMetadata::new: dot-separated identifiers, none empty.
is_build_metadata(s) ==
    \A i \in DOMAIN split(s, ".") :
        LET ident == split(s, ".")[i]
        IN  /\ ident # << >>
            /\ \A j \in DOMAIN ident : is_identifier_char(ident[j])

VersionError == [ok |-> FALSE, version |-> NoVersion]

\* FromStr for semver::Version: the numeric parts, then the prerelease after
\* the first hyphen and the build metadata after the first plus sign.
semver_parse(s) ==
    LET plus == position(s, "+")
        before_build == IF plus = 0 THEN s ELSE SubSeq(s, 1, plus - 1)
        build == IF plus = 0 THEN << >> ELSE SubSeq(s, plus + 1, Len(s))
        minus == position(before_build, "-")
        core == IF minus = 0 THEN before_build ELSE SubSeq(before_build, 1, minus - 1)
        prerelease == IF minus = 0 THEN << >>
                      ELSE SubSeq(before_build, minus + 1, Len(before_build))
        parts == split(core, ".")
    IN  IF /\ Len(parts) = 3
           /\ \A i \in 1..3 : is_numeric_part(parts[i])
           /\ minus # 0 => is_prerelease(prerelease)
           /\ plus # 0 => is_build_metadata(build)
        THEN [ok |-> TRUE,
              version |-> Semantic(decimal_value(parts[1], 0), decimal_value(parts[2], 0),
                                   decimal_value(parts[3], 0), prerelease, build)]
        ELSE VersionError

\* FromStr for DirectoryVersion
DirectoryVersion_from_str(s) ==
    IF strip_prefix(s, << "s", "e", "m", ":" >>).some
    THEN semver_parse(strip_prefix(s, << "s", "e", "m", ":" >>).rest)
    ELSE IF strip_prefix(s, << "l", "i", "t", ":" >>).some
    THEN [ok |-> TRUE, version |-> Literal(strip_prefix(s, << "l", "i", "t", ":" >>).rest)]
    ELSE VersionError

\* serde_json's string form: quotes around the text, the quote and the
\* backslash escaped.
RECURSIVE json_escape(_)
json_escape(s) ==
    IF s = << >> THEN << >>
    ELSE (IF Head(s) \in {"\"", "\\"} THEN << "\\", Head(s) >> ELSE << Head(s) >>)
             \o json_escape(Tail(s))

RECURSIVE json_unescape(_)
json_unescape(s) ==
    IF s = << >> THEN << >>
    ELSE IF Head(s) = "\\" /\ Len(s) >= 2 THEN << s[2] >> \o json_unescape(Tail(Tail(s)))
    ELSE << Head(s) >> \o json_unescape(Tail(s))

\* Serialize for DirectoryVersion
DirectoryVersion_serialize(v) ==
    << "\"" >> \o json_escape(DirectoryVersion_to_string(v)) \o << "\"" >>

\* Deserialize for DirectoryVersion
DirectoryVersion_deserialize(json) ==
    IF Len(json) >= 2 /\ json[1] = "\"" /\ json[Len(json)] = "\""
    THEN DirectoryVersion_from_str(json_unescape(SubSeq(json, 2, Len(json) - 1)))
    ELSE VersionError

\* ToSql for DirectoryVersion: the display form, as TEXT.
DirectoryVersion_to_sql(v) == DirectoryVersion_to_string(v)

\* FromSql for DirectoryVersion: value.as_str(), parsed.
DirectoryVersion_column_result(value) == DirectoryVersion_from_str(value)

\* The inputs: prerelease and build texts, and the pieces of literal texts.
Prereleases == { << >>, << "a" >>, << "1" >>, << "a", "-", "b", ".", "1" >> }
BuildMetadatas == { << >>, << "a" >>, << "0", "1" >> }

Pieces == { << "s", "e", "m", ":" >>, << "l", "i", "t", ":" >>, << "1", ".", "0", ".", "0" >>,
            << "s" >>, << ":" >>, << "x" >>, << "\"" >> }

RECURSIVE TextsOf(_)
TextsOf(n) ==
    IF n = 0 THEN { << >> }
    ELSE TextsOf(n - 1) \cup { t \o piece : t \in TextsOf(n - 1), piece \in Pieces }

Versions ==
    { Semantic(major, minor, patch, prerelease, build) :
          major \in 0..MaxNumber, minor \in {0, MaxNumber}, patch \in {0, 1},
          prerelease \in Prereleases, build \in BuildMetadatas }
    \cup { Literal(text) : text \in TextsOf(MaxPieces) }

VersionInputs ==
    { [kind |-> "version", numeric |-> 0, text |-> << >>, version |-> v] : v \in Versions } \cup
    { [kind |-> "text", numeric |-> 0, text |-> s, version |-> NoVersion] : s \in TextsOf(MaxPieces) }

InitVersion ==
    /\ PipelinesIdle
    /\ Initialized
    /\ codec_in \in VersionInputs
    /\ codec_out = NoOutput

OutputVersion(op, r, text) ==
    [op |-> op, ok |-> r.ok, numeric |-> 0, text |-> text, version |-> r.version]

\* version.to_string().parse()
directory_version_to_string_roundtrip ==
    /\ codec_in.kind = "version" /\ codec_out = NoOutput
    /\ codec_out' = OutputVersion("to_string",
                        DirectoryVersion_from_str(DirectoryVersion_to_string(codec_in.version)),
                        DirectoryVersion_to_string(codec_in.version))
    /\ UNCHANGED << codec_in, pipeline_vars, schemavars, logvars >>

\* serde_json::from_str(&serde_json::to_string(&version))
directory_version_serde_roundtrip ==
    /\ codec_in.kind = "version" /\ codec_out = NoOutput
    /\ codec_out' = OutputVersion("serde",
                        DirectoryVersion_deserialize(DirectoryVersion_serialize(codec_in.version)),
                        DirectoryVersion_serialize(codec_in.version))
    /\ UNCHANGED << codec_in, pipeline_vars, schemavars, logvars >>

\* The version written to a TEXT column and read back.
directory_version_rusqlite_roundtrip ==
    /\ codec_in.kind = "version" /\ codec_out = NoOutput
    /\ codec_out' = OutputVersion("rusqlite",
                        DirectoryVersion_column_result(DirectoryVersion_to_sql(codec_in.version)),
                        DirectoryVersion_to_sql(codec_in.version))
    /\ UNCHANGED << codec_in, pipeline_vars, schemavars, logvars >>

\* s.parse::<DirectoryVersion>()
directory_version_parse ==
    /\ codec_in.kind = "text" /\ codec_out = NoOutput
    /\ codec_out' = OutputVersion("parse", DirectoryVersion_from_str(codec_in.text), codec_in.text)
    /\ UNCHANGED << codec_in, pipeline_vars, schemavars, logvars >>

NextVersion ==
    \/ directory_version_to_string_roundtrip
    \/ directory_version_serde_roundtrip
    \/ directory_version_rusqlite_roundtrip
    \/ directory_version_parse

SpecVersion == InitVersion /\ [][NextVersion]_vars

----------------------------------------------------------------------------
\* The bytes new_directory_hash feeds to the hasher. A field is a sequence of
\* bytes of at most MaxFieldLen; a length is written on size_of_u64 bytes.

MaxFieldLen == 2

\* Byte values of the fields; they include values that lengths take.
FieldBytes == {1, 2}

Fields == UNION { [1..n -> FieldBytes] : n \in 0..MaxFieldLen }

RECURSIVE reversed(_)
reversed(v) == IF v = << >> THEN << >> ELSE Append(reversed(Tail(v)), Head(v))

\* Hasher::write_u64: the bytes of the integer in the byte order of the
\* platform the build runs on.
write_u64(n, endian) == IF endian = "big" THEN to_be_bytes(n) ELSE reversed(to_be_bytes(n))

\* The mutated framing: the bytes without their length.
hash_bytes_unframed(bytes, endian) == bytes

\* hash_bytes: hasher.write_u64(bytes.len() as u64); hasher.write(bytes)
hash_bytes(bytes, endian) == write_u64(Len(bytes), endian) \o bytes

\* CargoInstaller::add_to_hasher: hasher.write_u8(default_features as u8)
add_to_hasher(default_features) == << IF default_features THEN 1 ELSE 0 >>

\* new_directory_hash: everything written to the hasher, in order.
hasher_input(ns, name, version, default_features, endian) ==
    hash_bytes(ns, endian) \o hash_bytes(name, endian) \o hash_bytes(version, endian)
        \o add_to_hasher(default_features)

\* Reading a stream back: the fields of the first n framed fields, and what is
\* left after them; ok is false when the stream is too short.
RECURSIVE read_fields(_, _, _)
read_fields(stream, n, endian) ==
    IF n = 0 THEN [ok |-> TRUE, fields |-> << >>, rest |-> stream]
    ELSE IF Len(stream) < size_of_u64 THEN [ok |-> FALSE, fields |-> << >>, rest |-> << >>]
    ELSE LET head == SubSeq(stream, 1, size_of_u64)
             len == from_be_bytes(IF endian = "big" THEN head ELSE reversed(head), 0)
             after == SubSeq(stream, size_of_u64 + 1, Len(stream))
         IN  IF Len(after) < len THEN [ok |-> FALSE, fields |-> << >>, rest |-> << >>]
             ELSE LET more == read_fields(SubSeq(after, len + 1, Len(after)), n - 1, endian)
                  IN  [more EXCEPT !.fields = << SubSeq(after, 1, len) >> \o @]

InitHasher ==
    /\ PipelinesIdle
    /\ Initialized
    /\ \E ns \in Fields, name \in Fields, version \in Fields,
          default_features \in BOOLEAN, endian \in {"big", "little"} :
           codec_in = [kind |-> endian, numeric |-> IF default_features THEN 1 ELSE 0,
                       text |-> << ns, name, version >>, version |-> NoVersion]
    /\ codec_out = NoOutput

\* new_directory_hash on the fields of the input: what reached the hasher.
new_directory_hash_input ==
    /\ codec_in.kind \in {"big", "little"} /\ codec_out = NoOutput
    /\ codec_out' = [op |-> "hasher", ok |-> TRUE, numeric |-> 0,
                     text |-> hasher_input(codec_in.text[1], codec_in.text[2], codec_in.text[3],
                                           codec_in.numeric = 1, codec_in.kind),
                     version |-> NoVersion]
    /\ UNCHANGED << codec_in, pipeline_vars, schemavars, logvars >>

NextHasher == new_directory_hash_input

SpecHasher == InitHasher /\ [][NextHasher]_vars

\* Fair scheduling, terminating builds: a pipeline that can take a step takes one.
SpecLive == Init /\ [][Next]_vars /\ \A p \in Pipes : WF_vars(Step(p))

----------------------------------------------------------------------------
\* Positions of PackageInstaller::install between lock_exclusive and the drop of
\* the lock, and those at which an InstallGuard exists.
InstallLockedPcs == {"inst_check", "build", "finish", "fin_new", "fin_write", "fin_commit", "unwind"}
GuardPcs == InstallLockedPcs \ {"inst_check"}

FailedRets == {Failure, ErrAbort, Panicked}

event_names(j) == [k \in DOMAIN j |-> j[k].event_name]

count(j, name) == Cardinality({ k \in DOMAIN j : j[k].event_name = name })

----------------------------------------------------------------------------
\* C1: at most one pipeline at a time is in the locked part of install (from
\* the installed check to the drop of the guard) or in insert_new for an install
\* path, that pipeline is the holder of the path's lock, and an InstallGuard
\* exists only for the holder of the lock of its path.
C1_LockExclusive ==
    /\ \A p \in Pipes :
        /\ pc[p] \in InstallLockedPcs \cup {"new_insert"} => lock[hash[p]] = p
        /\ guard[p].exists => (pc[p] \in GuardPcs /\ lock[hash[p]] = p)
    /\ \A p, q \in Pipes :
        (p # q /\ hash[p] = hash[q] /\ pc[p] \in InstallLockedPcs \cup {"new_insert"})
            => pc[q] \notin InstallLockedPcs \cup {"new_insert"}

\* One pipeline is between the two renames of its swap while another, for the
\* same install path, waits at lock_exclusive.
C1_Witness ==
    \E p, q \in Pipes :
        /\ p # q /\ hash[p] = hash[q]
        /\ pc[p] = "fin_new" /\ guard[p].exists
        /\ pc[q] = "inst_lock"

\* C2: in every committed state of the catalog a directory has installed = true
\* exactly when an Install row references it, and every Install row has its
\* InstalledFile rows: the writes of finish become visible together or not at all.
C2_CommitAtomic ==
    /\ \A d \in DOMAIN directories :
        directories[d].installed => \E i \in DOMAIN installed : installed[i].directory_id = d
    /\ \A i \in DOMAIN installed :
        /\ directories[installed[i].directory_id].installed
        /\ \A n \in built_files : \E f \in installed_files : f.install_id = i /\ f.name = n

\* A commit has made a directory installed, while another pipeline has written
\* its Install row and set_installed(true) inside a transaction not yet committed.
C2_Witness ==
    \E p \in Pipes :
        /\ pc[p] = "fin_commit" /\ txn[p].install /\ txn[p].set_installed
        /\ ~directories[row[p]].installed
        /\ \E d \in DOMAIN directories : directories[d].installed

\* C3: when an install that created its guard has failed (build failure, a
\* failed commit step, the guard dropped by a panic), the committed rows of its
\* directory are those of the moment the guard was created: same installed flag,
\* same Install rows, same InstalledFile rows.
C3_FailureLeavesCatalog ==
    \A p \in Pipes :
        (pc[p] = "unwind" /\ ret[p] \in FailedRets) =>
            /\ DirState(row[p]).installed = pre[p].installed
            /\ DirState(row[p]).installs = pre[p].installs
            /\ DirState(row[p]).files = pre[p].files
            /\ ~txn[p].open

\* A commit step failed after the swap, that is after the transaction had been
\* opened, with the new tree already at the install path.
C3_Witness ==
    \E p \in Pipes :
        /\ pc[p] = "unwind" /\ ret[p] = ErrAbort
        /\ fs[hash[p]] = Built(p)

\* C4 (as claimed): when a failed attempt is dropped, a tree that an earlier
\* successful install had put at the install path (the directory was installed
\* and its path held a built tree when the attempt's guard was created) is still
\* at the install path.
C4_PreviousTreeKept ==
    [][\A p \in Pipes :
        ( /\ pc[p] = "unwind" /\ pc'[p] = "done"
          /\ ret[p] \in FailedRets
          /\ pre[p].installed /\ pre[p].tree.kind = "built" )
            => fs'[hash[p]] = pre[p].tree]_vars

RollbackReasons == {"ProcessFailed", "Aborted"}
RollbackMetadata == {"build failed", "commit step failed", TRANSACTION_DROPPED}

\* C6: a second rollback changes nothing. For every guard and any two reasons,
\* rollback after rollback gives the guard and journal of the first rollback;
\* and the step in which Drop calls rollback on a guard already rolled back
\* explicitly logs no event and leaves the catalog and the install paths as
\* they were.
C6_RollbackIdempotent ==
    [][\A p \in Pipes :
        /\ guard[p].exists =>
              \A r1, r2 \in RollbackReasons : \A m1, m2 \in RollbackMetadata :
                  LET once == rollback(p, guard[p], journal[p], r1, m1)
                  IN  rollback(p, once.guard, once.journal, r2, m2) = once
        /\ ( /\ pc[p] = "unwind" /\ pc'[p] = "done"
             /\ guard[p].finished /\ ret[p] \in FailedRets )
              => /\ journal'[p] = journal[p]
                 /\ UNCHANGED << directories, installed, installed_files, fs >>]_vars

\* A build failed, log_and_rollback rolled the guard back with ProcessFailed, then
\* Drop called rollback again: one install_failed, with the first reason.
C6_Witness ==
    \E p \in Pipes :
        /\ pc[p] = "done" /\ status[p] = Failure
        /\ count(journal[p], "install_failed") = 1
        /\ journal[p][Len(journal[p])].reason = "ProcessFailed"

\* Returns caused by a fault of the environment (network, build tool, I/O error
\* in a commit step, panic) or by the process giving up.
EnvironmentFaults == {ErrFetch, Failure, ErrAbort, Panicked, Cancelled}

\* C7 (as claimed): when two processes have run the same request from an empty
\* home and neither met a fault of the environment, each returned Success or
\* AlreadyInstalled, at least one of them Success with the tree it built at the
\* install path: no error return occurs.
C7_ConcurrentFreshInstall ==
    \A p, q \in Pipes :
        ( /\ p # q /\ proc[p] # proc[q] /\ req[p] = req[q]
          /\ pc[p] = "done" /\ pc[q] = "done"
          /\ status[p] \notin EnvironmentFaults /\ status[q] \notin EnvironmentFaults )
            => /\ {status[p], status[q]} \subseteq {Success, AlreadyInstalled}
               /\ Success \in {status[p], status[q]}
               /\ fs[hash[p]].kind = "built"

C9_InsertOnlyFresh ==
    \A p \in Pipes :
        pc[p] = "new_insert" =>
            /\ lock[hash[p]] = p
            /\ \A d \in DOMAIN directories :
                  ~( /\ directories[d].namespace = namespace
                     /\ directories[d].name = req[p].name
                     /\ directories[d].hash = hash[p] )

AllReturned == \A p \in Pipes : pc[p] = "done" /\ status[p] # "none"

\* C10: under fair scheduling every install eventually returns a status (or is
\* dropped with its process), and an install waiting at lock_exclusive waits only
\* while another pipeline holds the lock of its path: it eventually gets past.
C10_EveryInstallReturns ==
    /\ <>[]AllReturned
    /\ \A p \in Pipes : (pc[p] \in {"new_lock", "inst_lock"}) ~> (pc[p] \notin {"new_lock", "inst_lock"})

\* A task of one process blocks in lock_exclusive on a lock that a pipeline of
\* another process holds during its build, while a third future of the blocked
\* process (if any) cannot be polled.
C10_Witness ==
    \E p, q \in Pipes :
        /\ proc[p] # proc[q] /\ hash[p] = hash[q]
        /\ pc[p] = "build" /\ lock[hash[p]] = p
        /\ pc[q] \in {"new_lock", "inst_lock"}
        /\ ~ENABLED Step(q)

\* C11: a process that died before its commit left no Install row of its own, and
\* any process that died left no open transaction and no lock; and no state blocks a later install: a pipeline under the lock
\* always finds both renames of its swap and its writes possible whatever tree a
\* dead process left at the install path, and once it has returned Success its
\* directory is installed with the tree it built at the install path.
C11_CrashRecoverable ==
    /\ \A p \in Pipes :
          status[p] = Crashed =>
              /\ ret[p] # Success => \A i \in DOMAIN installed : installed[i].by # p
              /\ ~txn[p].open
              /\ \A h \in Hashes : lock[h] # p
    /\ \A q \in Pipes :
          /\ pc[q] = "inst_lock" => (lock[hash[q]] = 0 \/ pc[lock[hash[q]]] # "done")
          /\ pc[q] = "finish" => ENABLED rename_non_racy(q)
          /\ pc[q] = "fin_new" => ENABLED rename_new_dir(q)
          /\ pc[q] = "fin_write" => ENABLED finish_write(q)
          /\ status[q] = Success =>
                /\ directories[row[q]].installed
                /\ fs[hash[q]] = Built(q)

\* A process died between the swap and the commit (its staging directory is
\* left with install-new/ moved away); a later pipeline of another process then
\* re-installed into the same path and committed.
C11_Witness ==
    \E p, q \in Pipes :
        /\ p # q /\ hash[p] = hash[q]
        /\ status[p] = Crashed /\ pre[p] # NoPre
        /\ temp_dir[p].exists /\ temp_dir[p].new = Absent
        /\ status[q] = Success /\ fs[hash[q]] = Built(q)
        /\ directories[row[q]].installed

\* C12: a staging parent exists only for a pipeline between the start of its
\* fetch and its return; once the pipeline value has been dropped, whatever the
\* outcome, the staging parent with fetch/, install-new/ and install-old/ is gone.
C12_StagingRemoved ==
    \A p \in Pipes :
        /\ pc[p] = "done" => temp_dir[p] = NoTempDir
        /\ temp_dir[p].exists => pc[p] \in {"fetch"} \cup SyncPcs

\* A commit step failed after the swap (install-old/ had received the directory
\* that was at the install path), the install returned, and its staging is gone.
C12_Witness ==
    \E p \in Pipes :
        /\ pc[p] = "done" /\ status[p] = ErrAbort
        /\ fs[hash[p]] = Built(p)
        /\ temp_dir[p] = NoTempDir

\* The directory of the (namespace, name, hash) that pipeline p requests is installed.
target_installed(p) ==
    \E d \in DOMAIN directories :
        /\ directories[d].namespace = namespace
        /\ directories[d].name = req[p].name
        /\ directories[d].hash = new_directory_hash(namespace, req[p].name,
                                     resolved_version(req[p].name), req[p].default_features)
        /\ directories[d].installed

\* C13: a request whose target is installed when the Matcher looks it up, or
\* whose directory is found installed by the check under the lock in
\* install(false), returns AlreadyInstalled in that step, and the step inserts
\* no Install row and logs no event.
C13_AlreadyInstalled ==
    [][\A p \in Pipes :
        ( \/ pc[p] = "start" /\ pc'[p] # "start" /\ status'[p] # Cancelled /\ target_installed(p)
          \/ pc[p] = "inst_check" /\ pc'[p] # "inst_check" /\ directories[row[p]].installed )
            => /\ pc'[p] = "done" /\ status'[p] = AlreadyInstalled
               /\ installed' = installed
               /\ journal'[p] = << >>]_vars

\* A pipeline found no installed match at its lookup, fetched, and was told
\* under the lock that another pipeline had installed the directory meanwhile.
C13_Witness ==
    \E p \in Pipes :
        /\ pc[p] = "done" /\ status[p] = AlreadyInstalled
        /\ row[p] # 0
        /\ journal[p] = << >>
        /\ \A i \in DOMAIN installed : installed[i].by # p

C15_NonZeroExitIsFailure ==
    [][\A p \in Pipes : \A out \in ToolOutputs :
        ( /\ ~out.exit_success
          /\ \/ InstallGuard_install_with(p, out)
             \/ build_failed(p) /\ ~CargoInstaller_install(out).ok )
            => /\ pc'[p] = "unwind" /\ ret'[p] = Failure
               /\ journal'[p][Len(journal'[p])].reason = "ProcessFailed"
               /\ temp_dir'[p].new # Built(p)]_vars

\* C16: an error in a commit step (the move of the built files into
\* install-new/, or any step of finish) makes the install return an error, not a
\* Failure status, and the only event after install_started is one install_failed
\* with reason Aborted that carries the error; conversely such an event is
\* logged only by an install that returns that error.
C16_CommitErrorAborts ==
    \A p \in Pipes :
        /\ ( \/ pc[p] = "unwind" /\ ret[p] = ErrAbort
             \/ pc[p] = "done" /\ status[p] = ErrAbort )
              => /\ event_names(journal[p]) = << "install_started", "install_failed" >>
                 /\ journal[p][2].reason = "Aborted"
                 /\ journal[p][2].metadata = "commit step failed"
        /\ \A k \in DOMAIN journal[p] :
              journal[p][k].metadata = "commit step failed"
                  => ErrAbort \in {ret[p], status[p]}

\* The commit of a built package was refused (txn.commit() failed): the install
\* returned the error after the swap had been made and the rows written.
C16_Witness ==
    \E p \in Pipes :
        /\ pc[p] = "done" /\ status[p] = ErrAbort
        /\ journal[p][2].reason = "Aborted"
        /\ fs[hash[p]] = Built(p)
        /\ ~directories[row[p]].installed

----------------------------------------------------------------------------
\* The exit code of a process

\* The statuses of the installs of process pr, in the order of the command line.
RECURSIVE results_from(_, _)
results_from(pr, q) ==
    IF q > NPipes THEN << >>
    ELSE IF proc[q] = pr THEN << status[q] >> \o results_from(pr, q + 1)
    ELSE results_from(pr, q + 1)

\* Command::exec after try_join_all: the loop over the statuses from index k, with
\* any_failed and whether already_installed is empty, then the final choice.
RECURSIVE exec_loop(_, _, _, _, _)
exec_loop(results, k, any_failed, already_installed, keep_going) ==
    IF k > Len(results)
    THEN IF any_failed THEN 2 ELSE IF already_installed THEN 1 ELSE 0
    ELSE IF results[k] = Failure
         THEN IF ~keep_going THEN 2
              ELSE exec_loop(results, k + 1, TRUE, already_installed, keep_going)
    ELSE IF results[k] = AlreadyInstalled
         THEN exec_loop(results, k + 1, any_failed, TRUE, keep_going)
    ELSE exec_loop(results, k + 1, any_failed, already_installed, keep_going)

\* main: a panic ends the process with the exit code of the runtime for panics;
\* an Err from exec (try_join_all(...).await? passes on the first Err of an
\* install) is returned from main, which exits with 1; Ok(code) exits with code.
main_exit_code(results, keep_going) ==
    IF \E k \in DOMAIN results : results[k] = Panicked THEN 101
    ELSE IF \E k \in DOMAIN results : results[k] \in ErrorReturns THEN 1
    ELSE exec_loop(results, 1, FALSE, FALSE, keep_going)

\* Process pr has installs and all of them have ended.
exited(pr) ==
    /\ \E q \in Pipes : proc[q] = pr
    /\ \A q \in Pipes : proc[q] = pr => pc[q] = "done"

\* C18 (as claimed): the exit code of a process is 0 exactly when all its
\* installs returned Success, 1 exactly when none failed and at least one was
\* AlreadyInstalled, and 2 exactly when at least one failed, an install having
\* failed when it ended neither in Success nor in AlreadyInstalled.
C18_ExitCode ==
    \A pr \in Pipes : \A keep_going \in BOOLEAN :
        exited(pr) =>
            LET results == results_from(pr, 1)
                code == main_exit_code(results, keep_going)
                failed == \E k \in DOMAIN results : results[k] \notin {Success, AlreadyInstalled}
                already == \E k \in DOMAIN results : results[k] = AlreadyInstalled
            IN  /\ code = 0 <=> (~failed /\ ~already)
                /\ code = 1 <=> (~failed /\ already)
                /\ code = 2 <=> failed

\* C19 (as claimed): every InstalledFile row of a commit records the blake3
\* hash of the whole content that the file of that name had in the tree the
\* commit put at the install path.
C19_InstalledFileHash ==
    \A f \in installed_files :
        f.hash = blake3(file_content(Built(installed[f.install_id].by), f.name))


\* C20 (as claimed): when the most recently applied migration recorded in
\* migration_status is newer than every migration known to the build,
\* initialisation aborts with the "newer than latest known migration" error and
\* the table is as it was; and the error is raised in that situation only: when
\* it is reported, the applied name X orders after the latest known name Y.
C20_NewerErrorOnlyWhenNewer ==
    /\ (init_result # NoResult /\ last_applied_of(migration_status) > Max(all_migrations))
           => init_result = ErrNewer(last_applied_of(migration_status), Max(all_migrations))
    /\ init_result.kind = ErrNewer(0, 0).kind
           => init_result.last_applied > init_result.last_known

\* C21: initialisation is idempotent and once per process. After a successful
\* initialize on creator 1 or on its clone, creator 2, a further initialize on
\* either runs no script and no migration and logs nothing; an initialize from
\* any process on a catalog already initialised by this build applies no
\* migration, logs no migration event and leaves migration_status as it was; and
\* an initialize that returns an error leaves the cell of its creator unset.
C21_InitializeOnce ==
    [][\A c \in Creators :
          (initialize(c) \/ migration_failed(c)) =>
              /\ (c \in {1, 2} /\ initialized[1]) =>
                     /\ init_trace' = << >>
                     /\ init_result' = Ok
                     /\ migration_status' = migration_status
              /\ (\E d \in Creators : initialized[d]) =>
                     /\ migration_status' = migration_status
                     /\ \A i \in DOMAIN init_trace' :
                            /\ init_trace'[i].step # "log"
                            /\ init_trace'[i].what # "up.sql"
              /\ init_result' # Ok => ~initialized'[cell_of(c)]]_vars

\* A second initialize was called on an initialised creator, after migrations
\* were applied by the first, and another process has initialised as well.
C21_Witness ==
    /\ initialized[1] /\ initialized[3]
    /\ init_result = Ok /\ init_trace = << >>
    /\ \A m \in all_migrations : [name |-> m, state |-> "applied"] \in migration_status

\* C22 (as claimed): a failed append to the journal never fails, panics in or
\* blocks the thread that logged the event or that owns the logger, at logging
\* time or when the logger is released: the owner never panics, and logging is
\* possible whenever the owner holds a logger.
C22_JournalBestEffort ==
    /\ owner # "panicked"
    /\ (owner = "running" /\ loggers > 0 /\ Len(channel) + Len(events_journal) < MaxEvents)
           => \A l \in 1..loggers, event_name \in EventNames : ENABLED EventLogger_log(l, event_name)

\* C23 (as claimed): in every catalog state, a Directory row with installed =
\* true is referenced by at most one Install row, forced re-installs included.
C23_OneInstallPerInstalledDirectory ==
    \A d \in DOMAIN directories :
        directories[d].installed =>
            Cardinality({ i \in DOMAIN installed : installed[i].directory_id = d }) <= 1

\* C24 (as claimed): the Directory row an install uses carries the hash derived
\* from the (namespace, name, version, metadata) of its own request, and two
\* requests that differ in metadata use distinct Directory rows and install
\* paths.
C24_DirectoryPerRequest ==
    /\ \A p \in Pipes :
           row[p] \in DOMAIN directories =>
               /\ directories[row[p]].hash =
                      new_directory_hash(namespace, req[p].name,
                                         resolved_version(req[p].name), req[p].default_features)
               /\ directories[row[p]].metadata = req[p].default_features
    /\ \A p, q \in Pipes :
           (row[p] \in DOMAIN directories /\ row[q] \in DOMAIN directories /\ req[p] # req[q])
               => (row[p] # row[q] /\ hash[p] # hash[q])

C26_VersionRoundTrips ==
    /\ codec_out.op \in {"to_string", "serde", "rusqlite"} =>
           /\ codec_out.ok
           /\ codec_out.version = codec_in.version
    /\ codec_out.op \in {"to_string", "rusqlite"} =>
           SubSeq(codec_out.text, 1, 4) =
               IF codec_in.version.variant = "Semantic"
               THEN << "s", "e", "m", ":" >> ELSE << "l", "i", "t", ":" >>
    /\ (/\ codec_out.op = "parse"
        /\ \/ Len(codec_in.text) < 4
           \/ SubSeq(codec_in.text, 1, 4) \notin {<< "s", "e", "m", ":" >>, << "l", "i", "t", ":" >>})
           => ~codec_out.ok

\* A literal version whose text begins with sem: went through the display
\* round trip.
C26_Witness ==
    /\ codec_out.op = "to_string" /\ codec_out.ok
    /\ codec_in.version.variant = "Literal"
    /\ Len(codec_in.version.literal) > 4
    /\ SubSeq(codec_in.version.literal, 1, 4) = << "s", "e", "m", ":" >>

\* C27 (as claimed): no pipeline has a catalog transaction open at the moment
\* it calls a blocking lock acquisition (InitContext's lock_exclusive in
\* PackageInstaller::new, PackageInstaller's lock_exclusive in install).
C27_NoTransactionAcrossLock ==
    \A p \in Pipes : pc[p] \in {"new_lock", "inst_lock"} => ~txn[p].open

\* C28 (as claimed): a pipeline that holds both an open catalog write
\* transaction and the exclusive lock never releases the lock while the
\* transaction stays open: the step that gives the lock up finds the transaction
\* ended, in every execution including those in which the write fails.
C28_TransactionEndsBeforeUnlock ==
    [][\A p \in Pipes :
          (txn[p].open /\ lock[hash[p]] = p /\ lock'[hash[p]] # p) => ~txn'[p].open]_vars

\* The names recorded in migration_status with state "applied".
applied_names(table) == { r.name : r \in { t \in table : t.state = "applied" } }

\* The names of the up.sql scripts in a trace, in the order they were run.
RECURSIVE scripts_run(_)
scripts_run(trace) ==
    IF trace = << >> THEN << >>
    ELSE (IF Head(trace).what = "up.sql" THEN Head(trace).names ELSE << >>)
             \o scripts_run(Tail(trace))

\* C29 (as claimed): an initialisation that succeeds runs exactly the known
\* migrations ordering after the most recently applied one, in ascending order,
\* and records each as applied; and after any sequence of initialisations, by
\* this build or by builds that know additional migrations, migration_status is
\* prefix-closed: every migration known to the build that ran and ordering
\* before a recorded one is recorded.
C29_MigrationsPrefixClosed ==
    [][\A c \in Creators :
          (initialize(c) /\ ~initialized[cell_of(c)] /\ init_result' = Ok) =>
              LET after == { m \in SQL_DIR_migrations :
                                 m > last_applied_of(migration_status) }
              IN  /\ scripts_run(init_trace') = ascending(after)
                  /\ migration_status' =
                         migration_status \cup { [name |-> m, state |-> "applied"] : m \in after }
                  /\ \A x \in applied_names(migration_status') :
                         \A m \in SQL_DIR_migrations :
                             m < x => m \in applied_names(migration_status')]_vars

\* The names carried by the entries of a trace that log the given event.
RECURSIVE logged(_, _)
logged(trace, what) ==
    IF trace = << >> THEN << >>
    ELSE (IF Head(trace).step = "log" /\ Head(trace).what = what
          THEN Head(trace).names ELSE << >>) \o logged(Tail(trace), what)

\* C30: when a migration fails during initialisation, the last thing logged is
\* a migration_rollback event listing exactly the migrations applied earlier in
\* this run, in order, and not the failed one (the last one started);
\* nothing is committed, migration_status is as before the run, the error is
\* returned and the creator stays uninitialised.
C30_FailedMigrationRollsBack ==
    [][\A c \in Creators :
          migration_failed(c) =>
              LET n == Len(init_trace')
                  started == logged(init_trace', "migration_started")
                  k == started[Len(started)]
              IN  /\ n > 0
                  /\ init_trace'[n].step = "log" /\ init_trace'[n].what = "migration_rollback"
                  /\ init_trace'[n].names = logged(init_trace', "migration_finished")
                  /\ init_trace'[n].names = SubSeq(started, 1, Len(started) - 1)
                  /\ \A i \in DOMAIN init_trace'[n].names : init_trace'[n].names[i] # k
                  /\ \A i \in DOMAIN init_trace' : init_trace'[i].step # "commit"
                  /\ migration_status' = migration_status
                  /\ init_result' = ErrMigration
                  /\ ~initialized'[cell_of(c)]]_vars

\* A run failed on its second migration: the rollback event lists the first.
C30_Witness ==
    /\ init_result = ErrMigration
    /\ Len(init_trace) > 0
    /\ init_trace[Len(init_trace)].what = "migration_rollback"
    /\ init_trace[Len(init_trace)].names # << >>

\* C31: the events of one producer are journalled in the order the producer
\* logged them: the journal followed by the queue holds, for each logger, its
\* events with ranks 1, 2, .. in that order, so the journal never holds an event
\* of a logger before an earlier event of the same logger; in particular an
\* install_started logged before an install_failed of the same logger is
\* journalled before it.
C31_ProducerOrder ==
    /\ \A l \in 1..MaxLoggers :
           LET mine == events_of(l, events_journal \o channel)
           IN  \A i \in DOMAIN mine : mine[i].seq = i
    /\ \A i, j \in DOMAIN events_journal :
           (/\ events_journal[i].producer = events_journal[j].producer
            /\ events_journal[i].event_name = "install_started"
            /\ events_journal[j].event_name = "install_failed"
            /\ events_journal[i].seq < events_journal[j].seq) => i < j

\* Two loggers have events in the journal, one of them its install_started
\* followed by its install_failed with an event of the other in between.
C31_Witness ==
    /\ Len(events_journal) = 3
    /\ events_journal[1].producer = 1 /\ events_journal[1].event_name = "install_started"
    /\ events_journal[2].producer = 2
    /\ events_journal[3].producer = 1 /\ events_journal[3].event_name = "install_failed"

\* C32 (as claimed): the writer thread ends only when every sender has been
\* released, with every event that was enqueued written (nothing is left in the
\* queue at the step in which it ends), and once every sender is released and
\* the queue is drained it can end.
C32_WriterExitsWhenProducersReleased ==
    [][/\ (writer = "running" /\ writer' # "running") => (loggers = 0 /\ channel = << >>)
       /\ (writer = "running" /\ loggers = 0 /\ channel = << >>) => ENABLED writer_exit]_vars

\* C40: releasing the loggers never deadlocks. The join on the writer thread is
\* only performed after every sender has been dropped, whatever the order in
\* which the loggers drop their fields; while the join waits, the writer can
\* take a step (write a queued event, or end), and once the writer has ended
\* the join returns.
C40_ReleaseNeverDeadlocks ==
    owner = "joining" =>
        /\ loggers = 0
        /\ writer = "running" => ENABLED (writer_insert \/ writer_exit)
        /\ channel # << >> => writer = "running"
        /\ writer # "running" => ENABLED JoinHandle_drop

\* The last reference to the join handle is dropped while events are still
\* queued, after another logger dropped its sender before its reference.
C40_Witness ==
    /\ owner = "joining" /\ writer = "running" /\ Len(channel) = 2
    /\ channel[1].producer = 2 /\ channel[2].producer = 1

\* C33 (as claimed): a step a pipeline takes after the Matcher's lookup and
\* before InstallGuard::finish opens its transaction (the resolve and fetch, the
\* construction of the PackageInstaller, the lock and the installed check, the
\* build) inserts, updates and deletes no Directory, Install or InstalledFile row.
C33_StagesLeaveCatalog ==
    [][\A p \in Pipes :
          (Step(p) /\ pc[p] \in {"fetch", "new_lock", "new_insert", "new_err",
                                 "inst_lock", "inst_check", "build"})
              => UNCHANGED << directories, installed, installed_files >>]_vars

\* C34 (as claimed): the force flag carried by the install_started,
\* install_success and install_failed events of an install equals the force
\* argument given to PackageInstaller::install for that install.
C34_EventForceIsArgument ==
    \A p \in Pipes : \A i \in DOMAIN journal[p] : journal[p][i].force = force[p]

\* MatchInstalled(namespace, name) as specified: the Install rows joined with
\* their Directory, for the directories of that namespace and name that have
\* installed = true.
MatchInstalled(name) ==
    { i \in DOMAIN installed :
        /\ directories[installed[i].directory_id].namespace = namespace
        /\ directories[installed[i].directory_id].name = name
        /\ directories[installed[i].directory_id].installed }

\* C35: in every reachable catalog state the query of
\* InstalledRow::all_matches_for returns exactly MatchInstalled: no row of a
\* Directory with installed = false, and every Install row of an installed
\* Directory of that namespace and name.
C35_MatchInstalledExact ==
    \A name \in Names : InstalledRow_all_matches_for(name) = MatchInstalled(name)

\* An Install row is returned for a name that also has a Directory row which is
\* not installed.
C35_Witness ==
    \E i \in DOMAIN installed, d \in DOMAIN directories :
        /\ directories[d].name = directories[installed[i].directory_id].name
        /\ ~directories[d].installed
        /\ i \in InstalledRow_all_matches_for(directories[d].name)

C37_PathMutatedUnderLock ==
    [][/\ \A h \in Hashes :
              fs'[h] # fs[h] =>
                  \E p \in Pipes : lock[h] = p /\ hash[p] = h /\ pc'[p] # pc[p]
       /\ \A p \in Pipes :
              (pc[p] = "fin_new" /\ pc'[p] = "fin_new") => fs'[hash[p]] = fs[hash[p]]]_vars

\* The most recent Install row of directory d (0: none).
latest_install(d) ==
    LET of_d == { i \in DOMAIN installed : installed[i].directory_id = d }
    IN  IF of_d = {} THEN 0 ELSE CHOOSE i \in of_d : \A j \in of_d : j <= i

\* C38 (as claimed): whenever no pipeline holds the lock of an install path and
\* the Directory of the path has installed = true, the tree at the path is the
\* one committed with the most recent Install row of the directory, and every
\* InstalledFile row of that Install names a file that exists in it, after any
\* sequence of successful, failed, forced and cancelled installs without crash.
C38_InstalledTreeIsLatestCommit ==
    \A d \in DOMAIN directories :
        (directories[d].installed /\ lock[directories[d].hash] = 0) =>
            LET i == latest_install(d)
                tree == fs[directories[d].hash]
            IN  /\ i # 0
                /\ tree = Built(installed[i].by)
                /\ \A f \in installed_files :
                       f.install_id = i => file_content(tree, f.name) # << >>

\* The number of terminal events in a journal.
terminal_events(j) == count(j, "install_success") + count(j, "install_failed")

\* C39: for each InstallGuard at most one terminal event (install_success or
\* install_failed) is logged, and only after the install_started of the guard;
\* once the guard has been dropped exactly one has been logged; when finish has
\* succeeded the terminal event is install_success and no install_failed
\* follows it; and on a finished guard finish does not go on: a guard that was
\* rolled back has no open transaction, no row in the catalog and no
\* install_success.
C39_OneTerminalEvent ==
    \A p \in Pipes :
        LET j == journal[p]
        IN  /\ terminal_events(j) <= 1
            /\ terminal_events(j) = 1 =>
                   /\ event_names(j)[1] = "install_started"
                   /\ count(j, "install_started") = 1
                   /\ Len(j) = 2
            /\ (~guard[p].exists /\ j # << >>) => terminal_events(j) = 1
            /\ (ret[p] = Success \/ status[p] = Success) =>
                   event_names(j) = << "install_started", "install_success" >>
            /\ (guard[p].exists /\ guard[p].finished) =>
                   /\ ~finish_enters(guard[p])
                   /\ terminal_events(j) = 1
                   /\ ~txn[p].open
            /\ count(j, "install_failed") = 1 =>
                   /\ \A i \in DOMAIN installed : installed[i].by # p
                   /\ status[p] # Success /\ ret[p] # Success

\* A forced re-install failed in a step of finish: its guard logged
\* install_started and one install_failed, from the explicit rollback, and the
\* Drop that followed logged nothing.
C39_Witness ==
    \E p \in Pipes :
        /\ pc[p] = "done" /\ status[p] = ErrAbort /\ force[p]
        /\ ~guard[p].exists
        /\ event_names(journal[p]) = << "install_started", "install_failed" >>
        /\ journal[p][2].metadata = "commit step failed"

====
